---- MODULE Spec2Model ----
(***************************************************************************)
(* Model of the subagent orchestrator (pack/extensions/subagent/index.ts). *)
(*                                                                         *)
(* The orchestrator runs on one JavaScript event loop.  A callback (child  *)
(* exit, abort event, timer, tool call) runs to completion together with   *)
(* the promise continuations it schedules; only then the next callback     *)
(* runs.  The model keeps the position of every async function as state    *)
(* and lets an event fire only when no continuation is pending             *)
(* (Quiescent), so continuations always run before the next event.         *)
(*                                                                         *)
(* Text is a sequence of characters, and characters are integers: the      *)
(* characters with a meaning to the program have names below, every other  *)
(* character is a positive number.                                         *)
(***************************************************************************)
EXTENDS Integers, Sequences, FiniteSets, TLC

(* ---------------- program constants ---------------- *)
MAX_PARALLEL_TASKS == 8
MAX_CONCURRENCY == 4
SESSION_MAX_COUNT == 50
\* time is counted in hours: SESSION_MAX_AGE_MS = 2 * 60 * 60 * 1000
SESSION_MAX_AGE == 2
COMPLETED_JOB_MAX_COUNT == 50
\* COMPLETED_JOB_MAX_AGE_MS = 60 * 60 * 1000
COMPLETED_JOB_MAX_AGE == 1

(* ---------------- bounds of the model ---------------- *)
MaxItems == 5      \* longest parallel batch / chain explored
MaxReq == 2        \* top-level requests of one run (single mode)
MaxTicks == 1      \* idle periods explored
MaxTextSteps == 2  \* longest chain explored with task templates and outputs
MaxToolItems == 2  \* longest batch / chain among tool calls of every shape

(* ---------------- values ---------------- *)
KnownAgents == {"scout", "worker"}   \* names the profile resolver finds (user profiles)
ProjectAgents == {"worker", "local"} \* names of the project-local profiles
PromptAgents == {"scout"}            \* those of them with a system prompt
ItemAgents == {"scout", "ghost"}     \* names used by batch and chain items
CallAgents == {"scout", "worker", "ghost"}
NoSession == 0
NoJob == 0
NullCode == -1                       \* close event without an exit code
Req == 1..MaxReq

\* characters: the text {previous} (matched as a whole), and the characters
\* String.prototype.replace reads in a replacement string
Placeholder == 0
Dollar == -1
Amp == -2
Backtick == -3
Quote == -4

Empty == [agent |-> "", task |-> <<>>, exitCode |-> -1, completed |-> FALSE,
          stopReason |-> "none", stderr |-> "none", step |-> 0, sessionId |-> NoSession,
          messages |-> <<>>]
NoReply == [action |-> "none", cleared |-> 0, jobs |-> <<>>]
NoResponse == [kind |-> "none", isError |-> FALSE, results |-> <<>>,
               successCount |-> 0, step |-> 0, agent |-> ""]

VARIABLES
  req,             \* top-level requests: parameters, signal, scheduler state, response
  inv,             \* invocations of runSingleAgent, keyed by <<request, item>>
  sessions,        \* subagentSessions: id -> session object
  sessionCounter,  \* sessionCounter
  files,           \* session transcript files present on disk
  prompts,         \* temporary prompt directories present on disk, by owner
  jobs,            \* backgroundJobs: id -> job object
  jobCounter,      \* jobCounter
  now,             \* Date.now(), in hours
  latestCtx,       \* latestCtx: the context of the last agent_start, or null
  notifications,   \* the calls of ui.notify made for finished jobs, in order
  jobsReply,       \* the response of the last subagent_jobs call
  planModeEnabled, \* plan mode: planModeEnabled
  executionMode,   \* plan mode: executionMode
  cleanExecution,  \* plan mode: cleanExecution
  todoItems,       \* plan mode: todoItems, each with its step number and completed mark
  activeTools,     \* the tool names last given to pi.setActiveTools (all tools at start)
  entries,         \* the entries of the current session, as getEntries returns them
  planFlag,        \* pi.getFlag("plan") of the running process
  stream,          \* one subprocess: its state, the callback, currentResult, the updates sent
  buffer,          \* the text after the last newline of its output, in atoms
  arrived,         \* the complete lines of its output so far
  output,          \* the bytes of its output so far, as the segments between newlines
  grammarEnabled,         \* grammar fix: enabled
  syncMode,        \* grammar fix: syncMode
  pendingCorrections, \* grammar fix: pendingCorrections, in insertion order
  asyncAbort,      \* grammar fix: the controller of the current correction, or 0 for null
  cachedModel,     \* grammar fix: cachedModel
  corrections,     \* grammar fix: the async corrections started, in order, one per controller
  widget,          \* grammar fix: the correction shown by the widget, or 0 for none
  status,          \* grammar fix: the last text given to ui.setStatus
  grammarHasUI            \* grammar fix: latestCtx.hasUI, FALSE while latestCtx is null

subagentVars == <<req, inv, sessions, sessionCounter, files, prompts, jobs, jobCounter, now,
                  latestCtx, notifications, jobsReply>>

planVars == <<planModeEnabled, executionMode, cleanExecution, todoItems, activeTools,
              entries, planFlag>>

lineVars == <<stream, buffer, arrived, output>>

grammarVars == <<grammarEnabled, syncMode, pendingCorrections, asyncAbort, cachedModel, corrections,
                 widget, status, grammarHasUI>>

vars == <<subagentVars, planVars, lineVars, grammarVars>>

Key == Req \X (1..(MAX_PARALLEL_TASKS + 1))

\* the invocation with key k; invocations exist from their call on
Started(k) == k \in DOMAIN inv

\* launch and file are the session arguments of the child: --continue
\* --session file, --session file, or --no-session
InvIdle == [pc |-> "idle", agent |-> "", task |-> <<>>, step |-> 0, sessArg |-> NoSession,
            proc |-> "none", listener |-> FALSE, wasAborted |-> FALSE,
            termSent |-> FALSE, killSent |-> FALSE, killed |-> FALSE, timer |-> "none",
            session |-> NoSession, launch |-> "none", file |-> NoSession,
            exitCode |-> 0, completed |-> FALSE,
            stopReason |-> "none", stderr |-> "none", sessionId |-> NoSession,
            messages |-> <<>>, runs |-> 0]

\* a request slot before its tool call arrives; params = chain, tasks, agent,
\* task, sessionId, background; the rest is the state of runForegroundExecution
ReqAbsent == [chain |-> <<>>, tasks |-> <<>>, agent |-> "", task |-> <<>>,
              sessionId |-> NoSession, background |-> FALSE, jobId |-> NoJob,
              agentScope |-> "user", confirmProjectAgents |-> TRUE, hasUI |-> TRUE,
              answer |-> "none",
              mode |-> "none",
              state |-> "absent", aborted |-> FALSE, firedAt |-> "never",
              abortedWhile |-> {}, startedAtAbort |-> {},
              nextIndex |-> 0, ready |-> 0, busy |-> {}, doneW |-> 0, rejW |-> 0,
              previousOutput |-> <<>>,
              results |-> <<>>, allResults |-> <<>>, response |-> NoResponse]

NoPrompts == [oneShot |-> {}, session |-> {}]

(* ---------------- text ---------------- *)
Min(S) == CHOOSE x \in S : \A y \in S : x <= y
Max(S) == CHOOSE x \in S : \A y \in S : x >= y

\* the expansion of a replacement string for one match: $$ $& $` $'
\* (there are no capture groups, so $1.. stay as they are)
RECURSIVE GetSubstitution(_, _, _, _)
GetSubstitution(rep, matched, before, after) ==
  IF rep = <<>> THEN <<>>
  ELSE IF Head(rep) = Dollar /\ Len(rep) >= 2 /\ rep[2] \in {Dollar, Amp, Backtick, Quote}
    THEN (IF rep[2] = Dollar THEN <<Dollar>>
          ELSE IF rep[2] = Amp THEN matched
          ELSE IF rep[2] = Backtick THEN before
          ELSE after)
         \o GetSubstitution(SubSeq(rep, 3, Len(rep)), matched, before, after)
  ELSE <<Head(rep)>> \o GetSubstitution(Tail(rep), matched, before, after)

RECURSIVE ReplaceFrom(_, _, _)
ReplaceFrom(template, i, rep) ==
  IF i > Len(template) THEN <<>>
  ELSE (IF template[i] = Placeholder
        THEN GetSubstitution(rep, <<Placeholder>>, SubSeq(template, 1, i - 1),
                             SubSeq(template, i + 1, Len(template)))
        ELSE <<template[i]>>)
       \o ReplaceFrom(template, i + 1, rep)

\* step.task.replace(/\{previous\}/g, previousOutput)
ReplacePrevious(template, previousOutput) == ReplaceFrom(template, 1, previousOutput)

\* a message is [role, content], content a list of parts [type, text]
HasText(msg) == \E j \in 1..Len(msg.content) : msg.content[j].type = "text"

FirstText(msg) ==
  msg.content[Min({j \in 1..Len(msg.content) : msg.content[j].type = "text"})].text

\* getFinalOutput: the first text part of the last assistant message that
\* has one, else the empty string
getFinalOutput(messages) ==
  LET idx == {i \in 1..Len(messages) : messages[i].role = "assistant" /\ HasText(messages[i])}
  IN IF idx = {} THEN <<>> ELSE FirstText(messages[Max(idx)])

(* ---------------- session store ---------------- *)
Remove(f, ks) == [x \in (DOMAIN f) \ ks |-> f[x]]

\* cleanupSession: the entry, its transcript file (and prompt dir) go away
cleanupSession(store, id) == Remove(store, {id})

OldestById(store) == Min({id \in DOMAIN store : ~store[id].inUse})

\* first victim of the count rule: least recently used among the sessions
\* not in use, insertion (= id) order breaking ties (Array.sort is stable)
Oldest(store) ==
  LET free == {id \in DOMAIN store : ~store[id].inUse}
      lru == {id \in free : \A o \in free : store[id].lastUsedAt <= store[o].lastUsedAt}
  IN Min(lru)

RECURSIVE EvictByCount(_)
EvictByCount(store) ==
  IF Cardinality(DOMAIN store) > SESSION_MAX_COUNT /\ \E id \in DOMAIN store : ~store[id].inUse
  THEN EvictByCount(cleanupSession(store, Oldest(store)))
  ELSE store

evictOldSessionsInUseToo(store, t) ==
  EvictByCount(Remove(store, {id \in DOMAIN store : t - store[id].lastUsedAt > SESSION_MAX_AGE}))

evictOldSessions(store, t) ==
  LET toDelete == {id \in DOMAIN store :
                     ~store[id].inUse /\ t - store[id].lastUsedAt > SESSION_MAX_AGE}
  IN EvictByCount(Remove(store, toDelete))

\* createSession: new entry under a fresh id, then the eviction sweep; the
\* transcript path is made of the id, so the id stands for it
createSession(store, id, agentName, t) ==
  evictOldSessions(store @@ (id :> [agent |-> agentName, sessionFilePath |-> id,
                                    lastUsedAt |-> t, inUse |-> FALSE]), t)

\* session.inUse = v on the session object (a removed object is unreachable)
SetInUse(store, id, v) ==
  IF id \in DOMAIN store THEN [store EXCEPT ![id].inUse = v] ELSE store


(* ---------------- Profile Resolver ---------------- *)
\* discoverAgents: the profiles of a scope, by name, each with its source;
\* in scope both a project profile overrides the user profile of its name
discoverAgents(scope) ==
  LET user == [a \in KnownAgents |-> "user"]
      project == [a \in ProjectAgents |-> "project"]
  IN IF scope = "user" THEN user
     ELSE IF scope = "project" THEN project
     ELSE project @@ user

(* ---------------- Worker Process Driver: runSingleAgent ---------------- *)
ResolveNoInUseCheck(agents, agentName, sessionId) ==
  IF agentName \notin DOMAIN agents THEN "unknown_agent"
  ELSE IF sessionId = NoSession THEN "ok"
  ELSE IF sessionId \notin DOMAIN sessions THEN "session_not_found"
  ELSE IF sessions[sessionId].agent # agentName THEN "wrong_agent"
  ELSE IF sessionId \notin files THEN "file_missing"
  ELSE "ok"

ResolveAnyAgent(agents, agentName, sessionId) ==
  IF sessionId = NoSession THEN "ok"
  ELSE IF sessionId \notin DOMAIN sessions THEN "session_not_found"
  ELSE IF sessions[sessionId].agent # agentName THEN "wrong_agent"
  ELSE IF sessions[sessionId].inUse THEN "in_use"
  ELSE IF sessionId \notin files THEN "file_missing"
  ELSE "ok"

\* the checks before the try block; "ok" when the invocation goes on to spawn
Resolve(agents, agentName, sessionId) ==
  IF agentName \notin DOMAIN agents THEN "unknown_agent"
  ELSE IF sessionId = NoSession THEN "ok"
  ELSE IF sessionId \notin DOMAIN sessions THEN "session_not_found"
  ELSE IF sessions[sessionId].agent # agentName THEN "wrong_agent"
  ELSE IF sessions[sessionId].inUse THEN "in_use"
  ELSE IF sessionId \notin files THEN "file_missing"
  ELSE "ok"

Runs(k) == IF Started(k) THEN inv[k].runs ELSE 0

\* the synthetic failed result of a rejected invocation
Rejected(runs, agentName, task, step, sessionId, why) ==
  [InvIdle EXCEPT !.pc = "returned", !.agent = agentName, !.task = task, !.step = step,
                  !.sessArg = sessionId, !.exitCode = 1, !.completed = TRUE,
                  !.stderr = why, !.runs = runs + 1]

RejectedStoreKeepsStale(why, sessionId) == sessions

RejectedStoreReleases(why, sessionId) ==
  IF why = "file_missing" THEN cleanupSession(sessions, sessionId)
  ELSE IF why = "in_use" THEN SetInUse(sessions, sessionId, FALSE)
  ELSE sessions

\* the session store after an invocation was rejected for why
RejectedStore(why, sessionId) ==
  IF why = "file_missing" THEN cleanupSession(sessions, sessionId) ELSE sessions

SpawnedNeverContinues(runs, agentName, task, step, sessionId, sid, aborted, spawnOk) ==
  [InvIdle EXCEPT !.pc = "running", !.agent = agentName, !.task = task, !.step = step,
                  !.sessArg = sessionId, !.session = sid,
                  !.launch = IF sid # NoSession THEN "session" ELSE "no-session",
                  !.file = sid,
                  !.proc = IF spawnOk THEN "alive" ELSE "spawnerr",
                  !.listener = ~aborted, !.wasAborted = aborted,
                  !.termSent = aborted /\ spawnOk, !.killed = aborted /\ spawnOk,
                  !.timer = IF aborted THEN "armed" ELSE "none",
                  !.runs = runs + 1]

\* the invocation after spawn(): killProc runs at once when the signal is
\* already aborted, otherwise it is registered as the abort listener
Spawned(runs, agentName, task, step, sessionId, sid, aborted, spawnOk) ==
  [InvIdle EXCEPT !.pc = "running", !.agent = agentName, !.task = task, !.step = step,
                  !.sessArg = sessionId, !.session = sid,
                  !.launch = IF sessionId # NoSession THEN "continue"
                             ELSE IF sid # NoSession THEN "session" ELSE "no-session",
                  !.file = IF sessionId # NoSession THEN sessions[sessionId].sessionFilePath
                           ELSE sid,
                  !.proc = IF spawnOk THEN "alive" ELSE "spawnerr",
                  !.listener = ~aborted, !.wasAborted = aborted,
                  !.termSent = aborted /\ spawnOk, !.killed = aborted /\ spawnOk,
                  !.timer = IF aborted THEN "armed" ELSE "none",
                  !.runs = runs + 1]

\* runSingleAgent up to its first await (the exit promise)
RunSingleAgent(k, agentName, task, step, aborted, sessionId, enableSession) ==
  LET why == Resolve(discoverAgents(req[k[1]].agentScope), agentName, sessionId) IN
  IF why # "ok"
  THEN /\ inv' = (k :> Rejected(Runs(k), agentName, task, step, sessionId, why)) @@ inv
       /\ sessions' = RejectedStore(why, sessionId)
       /\ files' = files
       /\ prompts' = [prompts EXCEPT !.session = @ \cap DOMAIN sessions']
       /\ sessionCounter' = sessionCounter
  ELSE \E spawnOk \in BOOLEAN :
       LET sid == IF sessionId # NoSession THEN sessionId
                  ELSE IF enableSession THEN sessionCounter + 1 ELSE NoSession
           store == IF sessionId # NoSession
                    THEN [sessions EXCEPT ![sid].lastUsedAt = now]
                    ELSE IF enableSession THEN createSession(sessions, sid, agentName, now)
                    ELSE sessions
           tmp == IF sessionId = NoSession /\ agentName \in PromptAgents THEN {k} ELSE {}
       IN /\ inv' = (k :> Spawned(Runs(k), agentName, task, step, sessionId,
                                       sid, aborted, spawnOk)) @@ inv
          /\ sessions' = IF sid # NoSession THEN SetInUse(store, sid, TRUE) ELSE store
          /\ files' = (files \cap DOMAIN store)
                        \cup (IF spawnOk /\ sid # NoSession THEN {sid} ELSE {})
          /\ prompts' = IF sid # NoSession
                        THEN [prompts EXCEPT !.session =
                                (@ \cup {sid : x \in tmp}) \cap DOMAIN store]
                        ELSE [prompts EXCEPT !.oneShot = @ \cup tmp]
          /\ sessionCounter' = IF sessionId = NoSession /\ enableSession
                               THEN sessionCounter + 1 ELSE sessionCounter

\* emitParallelUpdate: the aggregate update built from allResults
emitParallelUpdate(allResults) ==
  [done |-> Cardinality({i \in DOMAIN allResults : allResults[i].completed}),
   running |-> Cardinality({i \in DOMAIN allResults : ~allResults[i].completed}),
   results |-> allResults]

\* code ?? 0
Coalesce(code) == IF code = NullCode THEN 0 ELSE code

FinishedThrowsOnlyOnFailure(rec, code, stop, msgs) ==
  IF rec.wasAborted /\ Coalesce(code) # 0
  THEN [rec EXCEPT !.pc = "thrown", !.proc = "exited", !.timer = "none",
                   !.sessionId = NoSession]
  ELSE [rec EXCEPT !.pc = "returned", !.proc = "exited", !.timer = "none",
                   !.exitCode = Coalesce(code), !.messages = msgs,
                   !.completed = TRUE, !.stopReason = stop, !.sessionId = rec.session]

\* runSingleAgent after the exit promise resolved with code.  An aborted
\* invocation throws: its result object is garbage, and the model keeps
\* nothing of it.  A timer still pending when the invocation ends is not
\* followed further: its callback finds no process to signal.
Finished(rec, code, stop, msgs) ==
  IF rec.wasAborted
  THEN [rec EXCEPT !.pc = "thrown", !.proc = "exited", !.timer = "none",
                   !.sessionId = NoSession]
  ELSE [rec EXCEPT !.pc = "returned", !.proc = "exited", !.timer = "none",
                   !.exitCode = Coalesce(code), !.messages = msgs,
                   !.completed = TRUE, !.stopReason = stop, !.sessionId = rec.session]

ReleasedOnSuccessOnly(rec) ==
  IF rec.session = NoSession THEN sessions
  ELSE IF rec.wasAborted THEN sessions
  ELSE SetInUse(sessions, rec.session, FALSE)

\* the session store after the invocation ended: cleanup on abort, then finally
Released(rec) ==
  IF rec.session = NoSession THEN sessions
  ELSE IF rec.wasAborted THEN cleanupSession(sessions, rec.session)
  ELSE SetInUse(sessions, rec.session, FALSE)

ResultOf(rec) ==
  [agent |-> rec.agent, task |-> rec.task, exitCode |-> rec.exitCode,
   completed |-> rec.completed, stopReason |-> rec.stopReason, stderr |-> rec.stderr,
   step |-> rec.step, sessionId |-> rec.sessionId, messages |-> rec.messages]

killProcFlagOnly(rec) ==
  [rec EXCEPT !.wasAborted = TRUE, !.listener = FALSE, !.timer = "armed"]

\* killProc: wasAborted, SIGTERM, and the timer of the grace window
killProc(rec) ==
  [rec EXCEPT !.wasAborted = TRUE, !.listener = FALSE,
              !.termSent = (rec.proc = "alive"), !.killed = (rec.proc = "alive"),
              !.timer = "armed"]

\* the timer callback: if (!proc.killed) proc.kill("SIGKILL")
graceElapsed(rec) ==
  IF ~rec.killed /\ rec.proc = "alive"
  THEN [rec EXCEPT !.timer = "fired", !.killSent = TRUE, !.killed = TRUE]
  ELSE [rec EXCEPT !.timer = "fired"]

isError(result) ==
  result.exitCode # 0 \/ result.stopReason = "error" \/ result.stopReason = "aborted"


(* ---------------- Background Job Registry ---------------- *)
OldestJob(js, term) ==
  Min({j \in term : \A o \in term : js[j].finishedAt <= js[o].finishedAt})

RECURSIVE DropNewestJobs(_)
DropNewestJobs(js) ==
  LET term == {j \in DOMAIN js : js[j].status # "running"} IN
  IF Cardinality(term) > COMPLETED_JOB_MAX_COUNT
  THEN DropNewestJobs(Remove(js,
         {Max({j \in term : \A o \in term : js[j].finishedAt >= js[o].finishedAt})}))
  ELSE js

RECURSIVE DropOldestJobs(_)
DropOldestJobs(js) ==
  LET term == {j \in DOMAIN js : js[j].status # "running"} IN
  IF Cardinality(term) > COMPLETED_JOB_MAX_COUNT
  THEN DropOldestJobs(Remove(js, {OldestJob(js, term)}))
  ELSE js

\* evictOldJobs: finished jobs past the age threshold, then the oldest
\* finished jobs beyond the count ceiling
evictOldJobs(js, t) ==
  LET old == {j \in DOMAIN js : js[j].status # "running"
                                 /\ t - js[j].finishedAt > COMPLETED_JOB_MAX_AGE}
  IN DropOldestJobs(Remove(js, old))

NewJobFinished(r, mode, agentName, t) ==
  [status |-> "completed", mode |-> mode, agent |-> agentName, req |-> r,
   startedAt |-> t, finishedAt |-> t, result |-> NoResponse]

\* the job object execute registers
NewJob(r, mode, agentName, t) ==
  [status |-> "running", mode |-> mode, agent |-> agentName, req |-> r,
   startedAt |-> t, finishedAt |-> -1, result |-> NoResponse]

\* the jobs whose runForegroundExecution settles in the step to reqNew: the
\* awaited promise of a job resolves or rejects once, and the rest of the
\* fire-and-forget function runs then
Finishing(js, reqNew) ==
  {j \in DOMAIN js :
     /\ js[j].req \in Req
     /\ req[js[j].req].state \in {"absent", "running"}
     /\ reqNew[js[j].req].state \in {"returned", "thrown"}}

JobsAfterRestamps(js, reqNew) ==
  [j \in DOMAIN js |->
     IF js[j].req \in Req /\ reqNew[js[j].req].state = "returned"
     THEN [js[j] EXCEPT !.status = IF reqNew[js[j].req].response.isError
                                   THEN "failed" ELSE "completed",
                        !.finishedAt = now, !.result = reqNew[js[j].req].response]
     ELSE IF js[j].req \in Req /\ reqNew[js[j].req].state = "thrown"
     THEN [js[j] EXCEPT !.status = "failed", !.finishedAt = now,
                        !.result = [NoResponse EXCEPT !.kind = "job_error",
                                                      !.isError = TRUE]]
     ELSE js[j]]

JobsAfterThrowKeepsRunning(js, reqNew) ==
  [j \in DOMAIN js |->
     IF j \in Finishing(js, reqNew) /\ reqNew[js[j].req].state = "returned"
     THEN [js[j] EXCEPT !.status = IF reqNew[js[j].req].response.isError
                                   THEN "failed" ELSE "completed",
                        !.finishedAt = now, !.result = reqNew[js[j].req].response]
     ELSE js[j]]

\* the continuation of the fire-and-forget function: the status, finish time
\* and result of every job whose runForegroundExecution has settled
JobsAfter(js, reqNew) ==
  [j \in DOMAIN js |->
     IF j \in Finishing(js, reqNew) /\ reqNew[js[j].req].state = "returned"
     THEN [js[j] EXCEPT !.status = IF reqNew[js[j].req].response.isError
                                   THEN "failed" ELSE "completed",
                        !.finishedAt = now, !.result = reqNew[js[j].req].response]
     ELSE IF j \in Finishing(js, reqNew)
     THEN [js[j] EXCEPT !.status = "failed", !.finishedAt = now,
                        !.result = [NoResponse EXCEPT !.kind = "job_error",
                                                      !.isError = TRUE]]
     ELSE js[j]]

RECURSIVE Notify(_, _, _)
Notify(log, js, S) ==
  IF S = {} THEN log
  ELSE LET j == Min(S) IN
       Notify(Append(log, [jobId |-> j, status |-> js[j].status]), js, S \ {j})

NotificationsAfterTwice(js, reqNew) ==
  LET S == Finishing(js, reqNew) IN
  IF latestCtx # "null"
  THEN Notify(Notify(notifications, JobsAfter(js, reqNew), S), JobsAfter(js, reqNew), S)
  ELSE notifications

\* the end of the fire-and-forget function: latestCtx.ui.notify, when a
\* context has been stored, with the status just written
NotificationsAfter(js, reqNew) ==
  IF latestCtx # "null"
  THEN Notify(notifications, JobsAfter(js, reqNew), Finishing(js, reqNew))
  ELSE notifications


(* ---------------- Concurrency Scheduler ---------------- *)
\* a continuation of request r is scheduled: a pool worker or the chain loop
\* is about to take its next item, or Promise.all has just resolved
Pending(r) ==
  \/ req[r].ready > 0
  \/ /\ req[r].mode = "parallel" /\ req[r].state = "running"
     /\ req[r].busy = {} /\ req[r].rejW = 0

\* a failed spawn reports through process.nextTick, ahead of any other event
SpawnFailing == \E k \in DOMAIN inv : inv[k].pc = "running" /\ inv[k].proc = "spawnerr"

Quiescent == ~SpawnFailing /\ \A r \in Req : ~Pending(r)

Response(kind, err, results, succ, step, agent) ==
  [kind |-> kind, isError |-> err, results |-> results,
   successCount |-> succ, step |-> step, agent |-> agent]

LimitUnbounded(concurrency, n) == n

\* mapWithConcurrencyLimit: the number of pool workers
Limit(concurrency, n) ==
  LET m == IF concurrency < n THEN concurrency ELSE n IN IF m < 1 THEN 1 ELSE m

TooManyNever(n) == FALSE

\* params.tasks.length > MAX_PARALLEL_TASKS
TooMany(n) == n > MAX_PARALLEL_TASKS

EnableSessionAlways(mode) == TRUE

\* the enableSession argument of runSingleAgent: false for chain steps and
\* batch items, the default (true) for the single call
EnableSession(mode) == mode = "single"

ModeCountAny(hasChain, hasTasks, hasSingle) ==
  IF hasChain \/ hasTasks \/ hasSingle THEN 1 ELSE 0

\* Number(hasChain) + Number(hasTasks) + Number(hasSingle)
ModeCount(hasChain, hasTasks, hasSingle) ==
  (IF hasChain THEN 1 ELSE 0) + (IF hasTasks THEN 1 ELSE 0) + (IF hasSingle THEN 1 ELSE 0)

\* the subagent tool's execute: validation, the registration of a background
\* job, then the synchronous head of runForegroundExecution, for a request p
\* drawn from P.  A background job runs on the signal of its own controller.
\* the names a request gives: of its chain steps, of its tasks, and its agent
RequestedAgentNames(q) ==
  {q.chain[i].agent : i \in 1..Len(q.chain)} \cup {q.tasks[i].agent : i \in 1..Len(q.tasks)}
    \cup (IF q.agent # "" THEN {q.agent} ELSE {})

ProjectAgentsRequested(q) ==
  LET agents == discoverAgents(q.agentScope) IN
  {a \in RequestedAgentNames(q) \cap DOMAIN agents : agents[a] = "project"}

NeedsConfirmNever(q) == FALSE

\* the condition of the confirmation prompt
NeedsConfirm(q) ==
  /\ q.agentScope \in {"project", "both"} /\ q.confirmProjectAgents /\ q.hasUI
  /\ ProjectAgentsRequested(q) # {}

\* execute from the background dispatch on: a background request gets its
\* job and runs detached from the signal of the call, a foreground request
\* enters runForegroundExecution
\* the entry of allResults for an item that has not reported yet
Unreported(t) == [Empty EXCEPT !.agent = t.agent, !.task = t.task]

Dispatch(r, q) ==
  LET hasChain == Len(q.chain) > 0
      hasTasks == Len(q.tasks) > 0
      mode == IF hasChain THEN "chain" ELSE IF hasTasks THEN "parallel" ELSE "single"
      aborted == q.aborted /\ ~q.background
      agentName == IF q.agent # "" THEN q.agent
                   ELSE IF hasChain THEN q.chain[1].agent
                   ELSE IF hasTasks THEN q.tasks[1].agent ELSE "unknown"
      base == [q EXCEPT !.jobId = IF q.background THEN jobCounter + 1 ELSE NoJob,
                        !.aborted = aborted,
                        !.firedAt = IF aborted THEN "before" ELSE "never"]
  IN
  /\ req' = [req EXCEPT ![r] =
       IF hasChain
         THEN [base EXCEPT !.mode = "chain", !.state = "running", !.ready = 1]
       ELSE IF hasTasks
         THEN IF TooMany(Len(q.tasks))
              THEN [base EXCEPT !.state = "returned",
                      !.response = Response("too_many_tasks", FALSE, <<>>, 0, 0, "")]
              ELSE [base EXCEPT !.mode = "parallel", !.state = "running",
                                !.results = [i \in 1..Len(q.tasks) |-> Empty],
                                !.allResults = [i \in 1..Len(q.tasks) |->
                                                  Unreported(q.tasks[i])],
                                !.ready = Limit(MAX_CONCURRENCY, Len(q.tasks))]
       ELSE [base EXCEPT !.mode = "single", !.state = "running", !.ready = 1]]
  /\ IF q.background
     THEN /\ jobCounter' = jobCounter + 1
          /\ LET registered == evictOldJobs(jobs, now)
                                  @@ ((jobCounter + 1) :> NewJob(r, mode, agentName, now))
             IN /\ jobs' = JobsAfter(registered, req')
                /\ notifications' = NotificationsAfter(registered, req')
     ELSE UNCHANGED <<jobs, jobCounter, notifications>>

\* the subagent tool is called with parameters p: the shape checks, then the
\* confirmation prompt when one is due, else the dispatch
Execute(r, P) ==
  /\ Quiescent
  /\ req[r].state = "absent"
  /\ \A q \in Req : q < r => req[q].state # "absent"
  /\ \E p \in P :
       LET hasChain == Len(p.chain) > 0
           hasTasks == Len(p.tasks) > 0
           hasSingle == p.agent # "" /\ p.task # <<>>
           modeCount == ModeCount(hasChain, hasTasks, hasSingle)
           base == [ReqAbsent EXCEPT !.chain = p.chain, !.tasks = p.tasks,
                                     !.agent = p.agent, !.task = p.task,
                                     !.sessionId = p.sessionId,
                                     !.background = p.background,
                                     !.agentScope = p.agentScope,
                                     !.confirmProjectAgents = p.confirmProjectAgents,
                                     !.hasUI = p.hasUI,
                                     !.aborted = p.aborted,
                                     !.firedAt = IF p.aborted THEN "before" ELSE "never"]
           reject(kind) == [base EXCEPT !.state = "returned",
                              !.response = Response(kind, FALSE, <<>>, 0, 0, "")]
       IN
       IF modeCount # 1
       THEN /\ req' = [req EXCEPT ![r] = reject("invalid_parameters")]
            /\ UNCHANGED <<jobs, jobCounter, notifications>>
       ELSE IF p.sessionId # NoSession /\ ~hasSingle
       THEN /\ req' = [req EXCEPT ![r] = reject("session_single_only")]
            /\ UNCHANGED <<jobs, jobCounter, notifications>>
       ELSE IF NeedsConfirm(base)
       THEN /\ req' = [req EXCEPT ![r] = [base EXCEPT !.state = "confirming"]]
            /\ UNCHANGED <<jobs, jobCounter, notifications>>
       ELSE Dispatch(r, base)
  /\ UNCHANGED <<inv, sessions, sessionCounter, files, prompts, now, latestCtx, jobsReply, planVars, lineVars, grammarVars>>

\* ctx.ui.confirm resolves with the user's answer
Confirm(r, ok) ==
  /\ Quiescent
  /\ req[r].state = "confirming"
  /\ IF ok THEN Dispatch(r, [req[r] EXCEPT !.answer = "approved"])
     ELSE /\ req' = [req EXCEPT ![r].state = "returned", ![r].answer = "declined",
                       ![r].response = Response("canceled", FALSE, <<>>, 0, 0, "")]
          /\ UNCHANGED <<jobs, jobCounter, notifications>>
  /\ UNCHANGED <<inv, sessions, sessionCounter, files, prompts, now, latestCtx, jobsReply, planVars, lineVars, grammarVars>>

FirstFree(results) == Min({i \in 1..Len(results) : results[i] = Empty})

StoreResultInCompletionOrder(results, current, result) ==
  [results EXCEPT ![FirstFree(results)] = result]

\* results[current] = await fn(items[current], current)
StoreResult(results, current, result) == [results EXCEPT ![current] = result]

\* one turn of a pool worker's loop: current = nextIndex++, leave when the
\* items are used up, else start fn(items[current], current)
WorkerPull(r) ==
  LET q == req[r]
      current == q.nextIndex + 1
      k == <<r, current>>
  IN
  /\ q.mode = "parallel" /\ q.ready > 0
  /\ IF q.nextIndex >= Len(q.tasks)
     THEN /\ req' = [req EXCEPT ![r].nextIndex = @ + 1, ![r].ready = @ - 1,
                                ![r].doneW = @ + 1]
          /\ UNCHANGED <<inv, sessions, sessionCounter, files, prompts>>
     ELSE /\ RunSingleAgent(k, q.tasks[current].agent, q.tasks[current].task, 0,
                            q.aborted, NoSession, EnableSession("parallel"))
          /\ req' = [req EXCEPT ![r] =
               IF inv'[k].pc = "returned"
               THEN [q EXCEPT !.nextIndex = @ + 1,
                              !.results = StoreResult(q.results, current, ResultOf(inv'[k])),
                              !.allResults[current] = ResultOf(inv'[k])]
               ELSE [q EXCEPT !.nextIndex = @ + 1, !.ready = @ - 1,
                              !.busy = @ \cup {current}]]
  /\ UNCHANGED <<jobs, jobCounter, now, latestCtx, notifications, jobsReply, planVars, lineVars, grammarVars>>

SuccessCount(results) ==
  Cardinality({i \in 1..Len(results) : results[i].exitCode = 0})

\* await Promise.all(workers) resolved: the parallel branch returns
BatchReturn(r) ==
  LET q == req[r] IN
  /\ q.mode = "parallel" /\ q.state = "running"
  /\ q.ready = 0 /\ q.busy = {} /\ q.rejW = 0
  /\ req' = [req EXCEPT ![r].state = "returned",
                        ![r].response = Response("parallel", FALSE, q.results,
                                                 SuccessCount(q.results), 0, "")]
  /\ jobs' = JobsAfter(jobs, req')
  /\ notifications' = NotificationsAfter(jobs, req')
  /\ UNCHANGED <<inv, sessions, sessionCounter, files, prompts, jobCounter, now,
               latestCtx, jobsReply, planVars, lineVars, grammarVars>>

ChainAfterZeroBased(q, result) ==
  LET results == Append(q.results, result) IN
  IF isError(result)
  THEN [q EXCEPT !.results = results, !.state = "returned", !.busy = {}, !.ready = 0,
                 !.response = Response("chain_stopped", TRUE, results, 0,
                                       q.nextIndex, q.chain[q.nextIndex + 1].agent)]
  ELSE [q EXCEPT !.results = results, !.busy = {}, !.nextIndex = @ + 1, !.ready = 1,
                 !.previousOutput = getFinalOutput(result.messages)]

ChainAfterNoStop(q, result) ==
  [q EXCEPT !.results = Append(q.results, result), !.busy = {},
            !.nextIndex = @ + 1, !.ready = 1,
            !.previousOutput = getFinalOutput(result.messages)]

\* the chain branch after a step returned result
ChainAfter(q, result) ==
  LET results == Append(q.results, result) IN
  IF isError(result)
  THEN [q EXCEPT !.results = results, !.state = "returned", !.busy = {}, !.ready = 0,
                 !.response = Response("chain_stopped", TRUE, results, 0,
                                       q.nextIndex + 1, q.chain[q.nextIndex + 1].agent)]
  ELSE [q EXCEPT !.results = results, !.busy = {}, !.nextIndex = @ + 1, !.ready = 1,
                 !.previousOutput = getFinalOutput(result.messages)]

\* head of one iteration of the chain loop
ChainNext(r) ==
  LET q == req[r]
      k == <<r, q.nextIndex + 1>>
  IN
  /\ q.mode = "chain" /\ q.ready > 0
  /\ IF q.nextIndex >= Len(q.chain)
     THEN /\ req' = [req EXCEPT ![r].state = "returned", ![r].ready = 0,
                       ![r].response = Response("chain_done", FALSE, q.results, 0, 0, "")]
          /\ UNCHANGED <<inv, sessions, sessionCounter, files, prompts>>
     ELSE /\ RunSingleAgent(k, q.chain[q.nextIndex + 1].agent,
                            ReplacePrevious(q.chain[q.nextIndex + 1].task, q.previousOutput),
                            q.nextIndex + 1, q.aborted, NoSession, EnableSession("chain"))
          /\ req' = [req EXCEPT ![r] =
               IF inv'[k].pc = "returned" THEN ChainAfter(q, ResultOf(inv'[k]))
               ELSE [q EXCEPT !.ready = 0, !.busy = {q.nextIndex + 1}]]
  /\ jobs' = JobsAfter(jobs, req')
  /\ notifications' = NotificationsAfter(jobs, req')
  /\ UNCHANGED <<jobCounter, now, latestCtx, jobsReply, planVars, lineVars, grammarVars>>

\* the single branch after runSingleAgent returned result
SingleAfter(q, result) ==
  [q EXCEPT !.results = <<result>>, !.state = "returned", !.busy = {}, !.ready = 0,
            !.response = Response("single", isError(result), <<result>>, 0, 0, result.agent)]

\* the single branch: runSingleAgent with the request's session id
SingleRun(r) ==
  LET q == req[r]
      k == <<r, 1>>
  IN
  /\ q.mode = "single" /\ q.ready > 0
  /\ RunSingleAgent(k, q.agent, q.task, 0, q.aborted, q.sessionId, EnableSession("single"))
  /\ req' = [req EXCEPT ![r] =
       IF inv'[k].pc = "returned" THEN SingleAfter(q, ResultOf(inv'[k]))
       ELSE [q EXCEPT !.ready = 0, !.busy = {1}]]
  /\ jobs' = JobsAfter(jobs, req')
  /\ notifications' = NotificationsAfter(jobs, req')
  /\ UNCHANGED <<jobCounter, now, latestCtx, jobsReply, planVars, lineVars, grammarVars>>

AfterReturnStopOnFailure(q, i, result) ==
  IF q.mode = "parallel"
  THEN [q EXCEPT !.results = StoreResult(q.results, i, result),
                 !.allResults[i] = result,
                 !.busy = @ \ {i},
                 !.ready = IF result.exitCode = 0 THEN @ + 1 ELSE @,
                 !.doneW = IF result.exitCode = 0 THEN @ ELSE @ + 1]
  ELSE IF q.mode = "chain" THEN ChainAfter(q, result)
  ELSE SingleAfter(q, result)

\* what awaits invocation i of request q does when it returned / threw
AfterReturn(q, i, result) ==
  IF q.mode = "parallel"
  THEN [q EXCEPT !.results = StoreResult(q.results, i, result),
                 !.allResults[i] = result,
                 !.busy = @ \ {i}, !.ready = @ + 1]
  ELSE IF q.mode = "chain" THEN ChainAfter(q, result)
  ELSE SingleAfter(q, result)

AfterThrow(q, i) ==
  [q EXCEPT !.busy = @ \ {i}, !.rejW = @ + 1,
            !.state = IF q.state = "running" THEN "thrown" ELSE q.state]


(* ---------------- events of the event loop ---------------- *)
Outcome(code, stop, msgs) == [code |-> code, stop |-> stop, msgs |-> msgs]

\* what a child can end with: its exit code (none when a signal ended it),
\* the stop reason of its last assistant message, and its messages
Outcomes ==
  {Outcome(0, "stop", <<>>), Outcome(1, "none", <<>>), Outcome(0, "error", <<>>),
   Outcome(0, "aborted", <<>>), Outcome(NullCode, "none", <<>>)}

Text(t) == [type |-> "text", text |-> t]
ToolCall == [type |-> "toolCall", text |-> <<>>]
Assistant(parts) == [role |-> "assistant", content |-> parts]
ToolResult == [role |-> "toolResult", content |-> <<Text(<<9>>)>>]

\* final outputs of a child: plain text, the placeholder text, and text with
\* dollar sequences
Outputs ==
  {<<7>>, <<Placeholder>>, <<Dollar, Amp>>, <<Dollar, Dollar>>, <<7, Dollar>>,
   <<Dollar, Quote>>}

MessageLists ==
  {<<>>} \cup {<<Assistant(<<Text(t)>>)>> : t \in Outputs}
    \cup {<<Assistant(<<ToolCall, Text(<<7>>), Text(<<8>>)>>), ToolResult>>,
          <<Assistant(<<Text(<<7>>)>>), ToolResult, Assistant(<<ToolCall>>)>>}

\* children that succeed with some messages, and a child that fails
TextOutcomes ==
  {Outcome(0, "stop", m) : m \in MessageLists} \cup {Outcome(1, "none", <<>>)}

\* the outcomes told apart by exit code alone
ExitOutcomes == {o \in Outcomes : o.stop \in {"stop", "none"}}

\* the exit promise of invocation k resolved with code: runSingleAgent ends,
\* and whoever awaited it goes on
PromptsAfterReturnOnly(k, rec) ==
  [oneShot |-> IF rec.wasAborted THEN prompts.oneShot ELSE prompts.oneShot \ {k},
   session |-> IF rec.wasAborted /\ rec.session \in DOMAIN sessions
               THEN prompts.session \ {rec.session}
               ELSE prompts.session]

\* the prompt directories after the invocation ended: cleanupSession of an
\* aborted invocation removes the directory of its session, finally removes
\* the directory the invocation still owns
PromptsAfter(k, rec) ==
  [oneShot |-> prompts.oneShot \ {k},
   session |-> IF rec.wasAborted /\ rec.session \in DOMAIN sessions
               THEN prompts.session \ {rec.session}
               ELSE prompts.session]

Settle(k, code, stop, msgs) ==
  LET rec == inv[k]
      fin == Finished(rec, code, stop, msgs)
  IN
  /\ inv' = [inv EXCEPT ![k] = fin]
  /\ sessions' = Released(rec)
  /\ files' = IF rec.wasAborted /\ rec.session \in DOMAIN sessions
              THEN files \ {rec.session} ELSE files
  /\ prompts' = PromptsAfter(k, rec)
  /\ req' = [req EXCEPT ![k[1]] =
       IF fin.pc = "returned" THEN AfterReturn(req[k[1]], k[2], ResultOf(fin))
       ELSE AfterThrow(req[k[1]], k[2])]
  /\ jobs' = JobsAfter(jobs, req')
  /\ notifications' = NotificationsAfter(jobs, req')
  /\ UNCHANGED <<sessionCounter, jobCounter, now, latestCtx, jobsReply, planVars, lineVars, grammarVars>>

\* a child of a parallel batch completes a message: its emitUpdate passes the
\* result so far to the callback of the batch, which stores it in allResults
\* and emits the aggregate update
ChildProgress(k) ==
  /\ Quiescent
  /\ k \in DOMAIN inv /\ inv[k].pc = "running" /\ inv[k].proc = "alive"
  /\ req[k[1]].mode = "parallel" /\ req[k[1]].state = "running"
  /\ req' = [req EXCEPT ![k[1]].allResults[k[2]] = ResultOf(inv[k])]
  /\ UNCHANGED <<inv, sessions, sessionCounter, files, prompts, jobs, jobCounter, now,
                 latestCtx, notifications, jobsReply, planVars, lineVars, grammarVars>>

\* proc.on("close")
ChildExit(k, O) ==
  /\ Quiescent
  /\ Started(k)
  /\ inv[k].pc = "running" /\ inv[k].proc = "alive"
  /\ \E o \in O : Settle(k, o.code, o.stop, o.msgs)

\* proc.on("error") after a failed spawn: resolve(1)
SpawnError(k) ==
  /\ Started(k)
  /\ inv[k].pc = "running" /\ inv[k].proc = "spawnerr"
  /\ Settle(k, 1, "none", <<>>)

\* the signal of the tool call fires while the request is in flight: the
\* abort listeners run.  (The listener of an invocation that has already
\* ended only touches locals nobody reads and finds no process to signal.)
AbortFire(r) ==
  /\ Quiescent
  /\ req[r].state = "running" /\ ~req[r].aborted /\ req[r].jobId = NoJob
  /\ inv' = [k \in DOMAIN inv |->
       IF k[1] = r /\ inv[k].listener /\ inv[k].pc = "running"
       THEN killProc(inv[k]) ELSE inv[k]]
  /\ req' = [req EXCEPT ![r].aborted = TRUE, ![r].firedAt = "running",
       ![r].abortedWhile = {k[2] : k \in {j \in DOMAIN inv : j[1] = r /\ inv[j].proc = "alive"}},
       ![r].startedAtAbort = {k[2] : k \in {j \in DOMAIN inv : j[1] = r}}]
  /\ UNCHANGED <<sessions, sessionCounter, files, prompts, jobs, jobCounter, now,
               latestCtx, notifications, jobsReply, planVars, lineVars, grammarVars>>

\* the 5000 ms timers set by killProc fire.  The timers of one request are
\* set in the same turn of the event loop, with the same delay, so they fire
\* in one timers phase.  (After an invocation ended the callback finds no
\* process to signal and changes nothing.)
GraceTimeout(r) ==
  LET due == {k \in DOMAIN inv : k[1] = r /\ inv[k].timer = "armed" /\ inv[k].pc = "running"}
  IN
  /\ Quiescent
  /\ due # {}
  /\ inv' = [k \in DOMAIN inv |-> IF k \in due THEN graceElapsed(inv[k]) ELSE inv[k]]
  /\ UNCHANGED <<req, sessions, sessionCounter, files, prompts, jobs, jobCounter, now,
               latestCtx, notifications, jobsReply, planVars, lineVars, grammarVars>>

\* an idle period passes, longer than the age thresholds of the sweeps
\* (the clock is read only to stamp and to age sessions and jobs)
Tick ==
  /\ Quiescent
  /\ DOMAIN sessions # {} \/ DOMAIN jobs # {}
  /\ now < MaxTicks * (SESSION_MAX_AGE + 1)
  /\ now' = now + SESSION_MAX_AGE + 1
  /\ UNCHANGED <<req, inv, sessions, sessionCounter, files, prompts, jobs, jobCounter,
               latestCtx, notifications, jobsReply, planVars, lineVars, grammarVars>>

\* pi.on("agent_start"): the context is kept for later notifications
AgentStart ==
  /\ Quiescent
  /\ latestCtx' = "ctx"
  /\ UNCHANGED <<req, inv, sessions, sessionCounter, files, prompts, jobs, jobCounter, now,
               notifications, jobsReply, planVars, lineVars, grammarVars>>

ClearedAll(js) == <<>>

\* subagent_jobs clear: every job that is not running is deleted
Cleared(js) == Remove(js, {j \in DOMAIN js : js[j].status # "running"})

\* the subagent_jobs tool: list, get (of job id) and clear
SubagentJobs(action, id) ==
  /\ Quiescent
  /\ IF action = "list"
     THEN /\ jobsReply' = [action |-> "list", cleared |-> 0,
                           jobs |-> [j \in DOMAIN jobs |-> jobs[j].status]]
          /\ jobs' = jobs
     ELSE IF action = "get"
     THEN /\ jobsReply' = [action |-> "get", cleared |-> 0,
                           jobs |-> IF id \in DOMAIN jobs THEN id :> jobs[id].status
                                    ELSE <<>>]
          /\ jobs' = jobs
     ELSE /\ jobs' = Cleared(jobs)
          /\ jobsReply' = [action |-> "clear",
                           cleared |-> Cardinality(DOMAIN jobs) - Cardinality(DOMAIN jobs'),
                           jobs |-> <<>>]
  /\ UNCHANGED <<req, inv, sessions, sessionCounter, files, prompts, jobCounter, now,
               latestCtx, notifications, planVars, lineVars, grammarVars>>

\* abortAllJobs (process exit, SIGINT, SIGTERM): the controller of every
\* running job aborts, so the abort listeners of its invocations run; then
\* every session of the store is cleaned up
AbortAllJobs ==
  LET R == {jobs[j].req : j \in {i \in DOMAIN jobs : jobs[i].status = "running"}}
      fresh == {r \in R : ~req[r].aborted}
  IN
  /\ Quiescent
  /\ R # {} \/ DOMAIN sessions # {}
  /\ inv' = [k \in DOMAIN inv |->
       IF k[1] \in fresh /\ inv[k].listener /\ inv[k].pc = "running"
       THEN killProc(inv[k]) ELSE inv[k]]
  /\ req' = [r \in Req |->
       IF r \in fresh
       THEN [req[r] EXCEPT !.aborted = TRUE, !.firedAt = "running",
              !.abortedWhile = {k[2] : k \in {j \in DOMAIN inv : j[1] = r /\ inv[j].proc = "alive"}},
              !.startedAtAbort = {k[2] : k \in {j \in DOMAIN inv : j[1] = r}}]
       ELSE req[r]]
  /\ sessions' = <<>>
  /\ files' = files \ DOMAIN sessions
  /\ prompts' = [prompts EXCEPT !.session = @ \ DOMAIN sessions]
  /\ UNCHANGED <<sessionCounter, jobs, jobCounter, now, latestCtx, notifications, jobsReply, planVars, lineVars, grammarVars>>

\* the transcript of a session is deleted from outside the program
DeleteFile(sid) ==
  /\ Quiescent
  /\ sid \in files
  /\ files' = files \ {sid}
  /\ UNCHANGED <<req, inv, sessions, sessionCounter, prompts, jobs, jobCounter, now,
               latestCtx, notifications, jobsReply, planVars, lineVars, grammarVars>>

(* ---------------- plan mode (plan-mode/index.ts) ---------------- *)
MaxTodos == 2      \* longest extracted plan explored
MaxEntries == 4    \* longest session log explored

PLAN_MODE_TOOLS == {"read", "bash", "grep", "find", "ls", "questionnaire"}

\* pi.getAllTools().map(t => t.name): the built-in tools; the read-only ones
\* are among them
AllToolNames == PLAN_MODE_TOOLS \cup {"edit", "write"}

NoData == [enabled |-> FALSE, todos |-> <<>>, executing |-> FALSE, cleanExec |-> FALSE]

\* the entries of a session log that the session_start handler reads: the
\* saved states, the execute markers and the assistant messages (the
\* displayed messages "plan-todo-list" and "plan-complete" match none of its
\* filters and are left out of the log)
PlanModeEntry(enabled, todos, executing, cleanExec) ==
  [type |-> "custom", customType |-> "plan-mode", done |-> {},
   data |-> [enabled |-> enabled, todos |-> todos, executing |-> executing,
             cleanExec |-> cleanExec]]

\* a message of the extension (pi.sendMessage) with its customType
CustomMessage(customType) ==
  [type |-> "custom_message", customType |-> customType, done |-> {}, data |-> NoData]

\* an assistant message; done: the step numbers of its [DONE:n] tags
AssistantEntry(done) ==
  [type |-> "message", customType |-> "", done |-> done, data |-> NoData]

\* persistState: appends the current flags and todo list to the session log
persistState(es, enabled, todos, executing, cleanExec) ==
  Append(es, PlanModeEntry(enabled, todos, executing, cleanExec))

\* markCompletedSteps: every todo whose step number is tagged becomes completed
markCompletedSteps(done, todos) ==
  [i \in DOMAIN todos |->
     IF todos[i].step \in done THEN [todos[i] EXCEPT !.completed = TRUE] ELSE todos[i]]

\* extractTodoItems of a message whose "Plan:" section has n numbered steps
extractTodoItems(n) == [i \in 1..n |-> [step |-> i, completed |-> FALSE]]

InitPlan ==
  /\ planModeEnabled = FALSE
  /\ executionMode = FALSE
  /\ cleanExecution = FALSE
  /\ todoItems = <<>>
  /\ activeTools = AllToolNames
  /\ entries = <<>>
  /\ planFlag = FALSE

\* /plan and Ctrl+Alt+P
togglePlanMode ==
  /\ planModeEnabled' = ~planModeEnabled
  /\ executionMode' = FALSE
  /\ cleanExecution' = FALSE
  /\ todoItems' = <<>>
  /\ activeTools' = IF ~planModeEnabled THEN PLAN_MODE_TOOLS ELSE AllToolNames
  /\ UNCHANGED <<entries, planFlag, subagentVars, lineVars, grammarVars>>

\* a turn ends with an assistant message carrying the tags `done`: the
\* message is in the session log when the turn_end handler runs
TurnEnd(done) ==
  LET logged == Append(entries, AssistantEntry(done))
      marked == markCompletedSteps(done, todoItems)
  IN
  /\ Len(entries) + (IF ~executionMode \/ todoItems = <<>> THEN 1 ELSE 2) <= MaxEntries
  /\ IF ~executionMode \/ todoItems = <<>>
     THEN /\ entries' = logged
          /\ UNCHANGED todoItems
     ELSE /\ todoItems' = marked
          /\ entries' = persistState(logged, planModeEnabled, marked, executionMode,
                                     cleanExecution)
  /\ UNCHANGED <<planModeEnabled, executionMode, cleanExecution, activeTools, planFlag,
                 subagentVars, lineVars, grammarVars>>

PlanChoices == {"Execute the plan", "Execute in clean context", "Stay in plan mode",
                "Refine the plan", "undefined"}

\* the agent_end handler; n: the number of steps extracted from the last
\* assistant message, choice: the answer of the selection dialog
AgentEnd(hasUI, n, choice) ==
  LET todos == IF n > 0 THEN extractTodoItems(n) ELSE todoItems
  IN
  /\ Len(entries) + 1 <= MaxEntries
  /\ IF executionMode /\ todoItems # <<>>
     THEN IF \A i \in DOMAIN todoItems : todoItems[i].completed
          THEN /\ executionMode' = FALSE
               /\ cleanExecution' = FALSE
               /\ todoItems' = <<>>
               /\ activeTools' = AllToolNames
               /\ entries' = persistState(entries, planModeEnabled, <<>>, FALSE, FALSE)
               /\ UNCHANGED planModeEnabled
          ELSE UNCHANGED <<planModeEnabled, executionMode, cleanExecution, todoItems,
                           activeTools, entries>>
     ELSE IF ~planModeEnabled \/ ~hasUI
     THEN UNCHANGED <<planModeEnabled, executionMode, cleanExecution, todoItems,
                      activeTools, entries>>
     ELSE /\ choice = "Execute in clean context" => todos # <<>>
          /\ todoItems' = todos
          /\ CASE choice = "Execute in clean context" ->
                    /\ planModeEnabled' = FALSE
                    /\ executionMode' = TRUE
                    /\ cleanExecution' = TRUE
                    /\ activeTools' = AllToolNames
                    /\ entries' = Append(entries, CustomMessage("plan-mode-execute"))
               [] choice = "Execute the plan" ->
                    /\ planModeEnabled' = FALSE
                    /\ executionMode' = (todos # <<>>)
                    /\ activeTools' = AllToolNames
                    /\ entries' = Append(entries, CustomMessage("plan-mode-execute"))
                    /\ UNCHANGED cleanExecution
               [] OTHER ->
                    UNCHANGED <<planModeEnabled, executionMode, cleanExecution,
                                activeTools, entries>>
  /\ UNCHANGED <<planFlag, subagentVars, lineVars, grammarVars>>

\* the index of the last entry of the log with this customType (0: none)
RECURSIVE LastIndex(_, _, _)
LastIndex(es, i, customType) ==
  IF i = 0 THEN 0
  ELSE IF es[i].customType = customType /\ (customType = "plan-mode" => es[i].type = "custom")
  THEN i
  ELSE LastIndex(es, i - 1, customType)

\* the [DONE:n] tags of the assistant messages after entry `from`
DoneAfter(es, from) ==
  UNION {es[i].done : i \in {j \in DOMAIN es : j > from /\ es[j].type = "message"}}

\* the session_start handler.  fresh: the extension was just constructed (a
\* new process, started with or without --plan: flag), with its initial
\* values and all tools active; otherwise the running extension receives the
\* event with the values it has.  session: the log of the session that
\* starts, the current one ("same") or an empty one ("new")
SessionStart(fresh, flag, session) ==
  LET es == IF session = "new" THEN <<>> ELSE entries
      plan == IF fresh THEN flag ELSE planFlag
      enabled0 == IF plan THEN TRUE ELSE IF fresh THEN FALSE ELSE planModeEnabled
      todos0 == IF fresh THEN <<>> ELSE todoItems
      executing0 == IF fresh THEN FALSE ELSE executionMode
      clean0 == IF fresh THEN FALSE ELSE cleanExecution
      tools0 == IF fresh THEN AllToolNames ELSE activeTools
      last == LastIndex(es, Len(es), "plan-mode")
      isResume == last # 0
      enabled1 == IF isResume THEN es[last].data.enabled ELSE enabled0
      todos1 == IF isResume THEN es[last].data.todos ELSE todos0
      executing1 == IF isResume THEN es[last].data.executing ELSE executing0
      clean1 == IF isResume THEN es[last].data.cleanExec ELSE clean0
      executeIndex == LastIndex(es, Len(es), "plan-mode-execute")
  IN
  /\ planFlag' = plan
  /\ entries' = es
  /\ planModeEnabled' = enabled1
  /\ executionMode' = executing1
  /\ cleanExecution' = clean1
  /\ todoItems' = IF isResume /\ executing1 /\ todos1 # <<>>
                  THEN markCompletedSteps(DoneAfter(es, executeIndex), todos1)
                  ELSE todos1
  /\ activeTools' = IF enabled1 THEN PLAN_MODE_TOOLS ELSE tools0
  /\ UNCHANGED <<subagentVars, lineVars, grammarVars>>

(* ---------------- the output stream of a subprocess (runSingleAgent) ---------------- *)
MaxLines == 2      \* most complete lines of one stream

\* the texts that lines are made of: M, a message_end event with the assistant
\* message m1; T, a tool_result_end event with the message t1; E, a
\* message_end event without message; X, an event of another kind; N, the
\* JSON text null; A and B, the two halves of a message_end event with the
\* user message m2, neither of them valid JSON alone
Atoms == {"M", "T", "E", "X", "N", "A", "B"}

\* the line texts explored: the empty line, one atom, and A followed by B
LineTexts == {<<>>} \cup {<<a>> : a \in Atoms} \cup {<<"A", "B">>}
               \cup {<<"U">>, <<"R">>, <<"R", "R">>}

\* the two bytes of a character outside ASCII: the lead byte H and the
\* continuation byte L; U is the character, R the replacement character
Bytes == {"H", "L"}

\* data.toString(): UTF-8 decoding of the bytes of one chunk; a lead byte
\* without its continuation and a continuation byte without its lead byte
\* decode to the replacement character
RECURSIVE toString(_)
toString(bytes) ==
  IF bytes = <<>> THEN <<>>
  ELSE IF Head(bytes) = "H"
  THEN IF Len(bytes) >= 2 /\ bytes[2] = "L"
       THEN <<"U">> \o toString(SubSeq(bytes, 3, Len(bytes)))
       ELSE <<"R">> \o toString(Tail(bytes))
  ELSE IF Head(bytes) = "L" THEN <<"R">> \o toString(Tail(bytes))
  ELSE <<Head(bytes)>> \o toString(Tail(bytes))

Undefined == "undefined"
SyntaxError == [ok |-> FALSE, isNull |-> FALSE, type |-> Undefined, message |-> Undefined]
JsonObject(type, message) == [ok |-> TRUE, isNull |-> FALSE, type |-> type, message |-> message]
JsonNull == [ok |-> TRUE, isNull |-> TRUE, type |-> Undefined, message |-> Undefined]

\* JSON.parse of the text of a line
JSONparse(line) ==
  CASE line = <<"M">> -> JsonObject("message_end", "m1")
    [] line = <<"T">> -> JsonObject("tool_result_end", "t1")
    [] line = <<"E">> -> JsonObject("message_end", Undefined)
    [] line = <<"X">> -> JsonObject("turn_start", Undefined)
    [] line = <<"N">> -> JsonNull
    [] line = <<"A", "B">> -> JsonObject("message_end", "m2")
    [] line = <<"U">> -> JsonObject("message_end", "m3")
    [] line = <<"R", "R">> -> JsonObject("message_end", "m4")
    [] OTHER -> SyntaxError

role(msg) == IF msg = "m1" THEN "assistant" ELSE IF msg = "t1" THEN "toolResult" ELSE "user"

\* emitUpdate: the callback, when there is one, gets the messages so far
emitUpdate(st) ==
  IF st.onUpdate THEN [st EXCEPT !.updates = Append(@, st.messages)] ELSE st

\* processLine; st.threw: the call ended with an exception (the read of
\* event.type of null)
processLine(st, line) ==
  LET event == JSONparse(line) IN
  IF line = <<>> THEN st
  ELSE IF ~event.ok THEN st
  ELSE IF event.isNull THEN [st EXCEPT !.threw = TRUE]
  ELSE IF event.type = "message_end" /\ event.message # Undefined
  THEN emitUpdate([st EXCEPT !.messages = Append(@, event.message),
                             !.turns = IF role(event.message) = "assistant" THEN @ + 1 ELSE @])
  ELSE IF event.type = "tool_result_end" /\ event.message # Undefined
  THEN emitUpdate([st EXCEPT !.messages = Append(@, event.message)])
  ELSE st

\* for (const line of lines) processLine(line): an exception ends the loop
RECURSIVE processLines(_, _)
processLines(st, lines) ==
  IF lines = <<>> \/ st.threw THEN st
  ELSE processLines(processLine(st, Head(lines)), Tail(lines))

NoStream == [state |-> "none", onUpdate |-> FALSE, messages |-> <<>>, turns |-> 0,
             updates |-> <<>>, threw |-> FALSE]

InitLines ==
  /\ stream = NoStream
  /\ buffer = <<>>
  /\ arrived = <<>>
  /\ output = <<<<>>>>

\* spawn: the subprocess starts, with or without a progress callback
Spawn(onUpdate) ==
  /\ stream.state = "none"
  /\ stream' = [stream EXCEPT !.state = "open", !.onUpdate = onUpdate]
  /\ UNCHANGED <<buffer, arrived, output, subagentVars, planVars, grammarVars>>

\* the output after one more chunk
Received(out, segments) ==
  SubSeq(out, 1, Len(out) - 1) \o <<out[Len(out)] \o Head(segments)>> \o Tail(segments)

\* proc.stdout.on("data"): segments is the bytes of data between its
\* newlines, lines is (buffer + data.toString()).split("\n")
StdoutData(segments) ==
  LET text == [i \in 1..Len(segments) |-> toString(segments[i])]
      lines == <<buffer \o Head(text)>> \o Tail(text)
      complete == SubSeq(lines, 1, Len(lines) - 1)
  IN
  /\ stream.state = "open"
  /\ Len(arrived) + Len(complete) <= MaxLines
  /\ lines[1] \in LineTexts
  /\ buffer' = lines[Len(lines)]
  /\ arrived' = arrived \o complete
  /\ output' = Received(output, segments)
  /\ stream' = processLines([stream EXCEPT !.threw = FALSE], complete)
  /\ UNCHANGED <<subagentVars, planVars, grammarVars>>

\* proc.on("close"): the rest of the buffer is a line; the promise resolves
\* unless processLine threw
Close ==
  LET st == IF buffer # <<>> THEN processLine([stream EXCEPT !.threw = FALSE], buffer)
            ELSE [stream EXCEPT !.threw = FALSE]
  IN
  /\ stream.state = "open"
  /\ arrived' = IF buffer # <<>> THEN Append(arrived, buffer) ELSE arrived
  /\ stream' = [st EXCEPT !.state = IF st.threw THEN "pending" ELSE "resolved"]
  /\ UNCHANGED <<buffer, output, subagentVars, planVars, grammarVars>>

(* ---------------- grammar fix: async correction ---------------- *)
MaxCorrections == 2
MAX_PENDING == 20
WhiteSpace == {" ", "\t"}
CommandWords == {"/cmd"}
ShortWords == {"ok"}
\* prompts, as sequences of words and single whitespace characters
PromptTexts == {<<"helo", " ", " ", "wrold">>, <<" ", "helo", "\t", "wrold">>,
                <<"/cmd">>, <<"ok", " ">>}
Responses == {"corrected", "null", "aborted"}

RECURSIVE trimStart(_)
trimStart(text) ==
  IF text # <<>> /\ Head(text) \in WhiteSpace THEN trimStart(Tail(text)) ELSE text

RECURSIVE trimEnd(_)
trimEnd(text) ==
  IF text # <<>> /\ text[Len(text)] \in WhiteSpace
  THEN trimEnd(SubSeq(text, 1, Len(text) - 1)) ELSE text

trim(text) == trimEnd(trimStart(text))

\* text.replace(/\s+/g, " ")
RECURSIVE collapse(_)
collapse(text) ==
  IF text = <<>> THEN <<>>
  ELSE IF Head(text) \in WhiteSpace THEN <<" ">> \o collapse(trimStart(text))
  ELSE <<Head(text)>> \o collapse(Tail(text))

normalizeForMatch(text) == collapse(trim(text))

\* the prompts here are English prose or a command: the tests for non-Latin
\* text and for code never apply
shouldSkip(text) ==
  LET trimmed == trim(text) IN
  \/ trimmed # <<>> /\ Head(trimmed) \in CommandWords
  \/ trimmed = <<>>
  \/ Len(trimmed) = 1 /\ trimmed[1] \in ShortWords

updateStatus(on, sync) ==
  IF ~on THEN "undefined" ELSE IF sync THEN "grammar(sync)" ELSE "grammar"

\* controller.abort() on the controller a, 0 being null
abort(cs, a) == IF a = 0 THEN cs ELSE [cs EXCEPT ![a].aborted = TRUE]

\* pendingCorrections.set(key, result), result being that of correction k
MapSet(m, key, k) ==
  IF \E i \in 1..Len(m) : m[i].key = key
  THEN [i \in 1..Len(m) |-> IF m[i].key = key THEN [key |-> key, by |-> k] ELSE m[i]]
  ELSE Append(m, [key |-> key, by |-> k])

EvictFirst(m) == IF Len(m) > MAX_PENDING THEN Tail(m) ELSE m

StoresAborted(c) == c.response = "corrected"

\* the two early returns after await fixGrammar: no result, or signal aborted
Stores(c) == c.response = "corrected" /\ ~c.aborted

InitGrammar ==
  /\ grammarEnabled = TRUE
  /\ syncMode = FALSE
  /\ pendingCorrections = <<>>
  /\ asyncAbort = 0
  /\ cachedModel = "undefined"
  /\ corrections = <<>>
  /\ widget = 0
  /\ status = "undefined"
  /\ grammarHasUI = FALSE

\* pi.on("before_agent_start"), up to the first await of the async correction
BeforeAgentStart(prompt, ui) ==
  LET k == Len(corrections) + 1
      starts == grammarEnabled /\ ~syncMode /\ prompt # <<>> /\ ~shouldSkip(prompt)
  IN
  /\ Len(corrections) < MaxCorrections
  /\ grammarHasUI' = ui
  /\ widget' = 0
  /\ IF starts
     THEN /\ corrections' = Append(abort(corrections, asyncAbort),
                                   [prompt |-> prompt, aborted |-> FALSE,
                                    pc |-> IF cachedModel = "undefined" THEN "find"
                                           ELSE "cached",
                                    cheap |-> cachedModel, response |-> "none"])
          /\ asyncAbort' = k
     ELSE UNCHANGED <<corrections, asyncAbort>>
  /\ UNCHANGED <<grammarEnabled, syncMode, pendingCorrections, cachedModel, status,
                 subagentVars, planVars, lineVars>>

\* await getCheapModel(ctx) resumes: without a model the correction ends,
\* with one fixGrammar calls complete
ModelLookup(k, found) ==
  LET c == corrections[k]
      cheap == IF c.pc = "cached" THEN c.cheap ELSE IF found THEN "cheap" ELSE "null"
  IN
  /\ k \in 1..Len(corrections)
  /\ c.pc \in {"find", "cached"}
  /\ c.pc = "cached" => found
  /\ cachedModel' = IF c.pc = "find" THEN cheap ELSE cachedModel
  /\ corrections' = [corrections EXCEPT ![k].pc = IF cheap = "null" THEN "done" ELSE "fix",
                                        ![k].cheap = cheap]
  /\ asyncAbort' = IF cheap = "null" /\ asyncAbort = k THEN 0 ELSE asyncAbort
  /\ UNCHANGED <<grammarEnabled, syncMode, pendingCorrections, widget, status, grammarHasUI,
                 subagentVars, planVars, lineVars>>

\* complete() settles and fixGrammar returns a result or null; a response
\* with stopReason "aborted" needs an aborted signal
Completes(k, response) ==
  /\ k \in 1..Len(corrections)
  /\ corrections[k].pc = "fix"
  /\ response = "aborted" => corrections[k].aborted
  /\ corrections' = [corrections EXCEPT ![k].pc = "resumed", ![k].response = response]
  /\ UNCHANGED <<grammarEnabled, syncMode, pendingCorrections, asyncAbort, cachedModel, widget,
                 status, grammarHasUI, subagentVars, planVars, lineVars>>

\* the async correction after await fixGrammar, with its finally block
Resume(k) ==
  LET c == corrections[k] IN
  /\ k \in 1..Len(corrections)
  /\ c.pc = "resumed"
  /\ IF Stores(c)
     THEN /\ pendingCorrections' =
               EvictFirst(MapSet(pendingCorrections, normalizeForMatch(c.prompt), k))
          /\ widget' = IF grammarHasUI THEN k ELSE widget
     ELSE UNCHANGED <<pendingCorrections, widget>>
  /\ corrections' = [corrections EXCEPT ![k].pc = "done"]
  /\ asyncAbort' = IF asyncAbort = k THEN 0 ELSE asyncAbort
  /\ UNCHANGED <<grammarEnabled, syncMode, cachedModel, status, grammarHasUI,
                 subagentVars, planVars, lineVars>>

\* the /grammar command with argument sync, off, on or none (toggle)
GrammarCommand(arg) ==
  LET on == CASE arg = "off" -> FALSE
              [] arg = "on" -> TRUE
              [] arg = "sync" -> grammarEnabled
              [] OTHER -> ~grammarEnabled
      sync == IF arg = "sync" THEN ~syncMode
              ELSE IF arg = "" /\ on THEN syncMode ELSE FALSE
      resets == arg = "off" \/ (arg = "" /\ ~on)
  IN
  /\ arg \in {"sync", "off", "on", ""}
  /\ grammarEnabled' = on
  /\ syncMode' = sync
  /\ status' = updateStatus(on, sync)
  /\ IF resets
     THEN /\ pendingCorrections' = <<>>
          /\ corrections' = abort(corrections, asyncAbort)
          /\ asyncAbort' = 0
          /\ cachedModel' = "undefined"
          /\ widget' = 0
     ELSE /\ cachedModel' = IF arg = "on" THEN "undefined" ELSE cachedModel
          /\ UNCHANGED <<pendingCorrections, corrections, asyncAbort, widget>>
  /\ UNCHANGED <<grammarHasUI, subagentVars, planVars, lineVars>>

\* pi.on("session_start"): latestCtx = ctx; resetState(); updateStatus(ctx)
GrammarSessionStart(ui) ==
  /\ grammarHasUI' = ui
  /\ pendingCorrections' = <<>>
  /\ corrections' = abort(corrections, asyncAbort)
  /\ asyncAbort' = 0
  /\ cachedModel' = "undefined"
  /\ status' = updateStatus(grammarEnabled, syncMode)
  /\ UNCHANGED <<grammarEnabled, syncMode, widget, subagentVars, planVars, lineVars>>

NextGrammar ==
  \/ \E prompt \in PromptTexts, ui \in BOOLEAN : BeforeAgentStart(prompt, ui)
  \/ \E k \in 1..MaxCorrections, found \in BOOLEAN : ModelLookup(k, found)
  \/ \E k \in 1..MaxCorrections, response \in Responses : Completes(k, response)
  \/ \E k \in 1..MaxCorrections : Resume(k)
  \/ \E arg \in {"sync", "off", "on", ""} : GrammarCommand(arg)
  \/ \E ui \in BOOLEAN : GrammarSessionStart(ui)

(* ---------------- specifications ---------------- *)
Init ==
  /\ req = [r \in Req |-> ReqAbsent]
  /\ inv = <<>>
  /\ sessions = <<>>
  /\ sessionCounter = 0
  /\ files = {}
  /\ prompts = NoPrompts
  /\ jobs = <<>>
  /\ jobCounter = 0
  /\ now = 0
  /\ latestCtx = "null"
  /\ notifications = <<>>
  /\ jobsReply = NoReply
  /\ InitPlan
  /\ InitLines
  /\ InitGrammar

Items(n, agents) ==
  {[i \in 1..n |-> [agent |-> f[i], task |-> <<i>>]] : f \in [1..n -> agents]}

ItemLists == UNION {Items(n, ItemAgents) : n \in 1..MaxItems}

\* a batch one item over the ceiling
OverLimit == Items(MAX_PARALLEL_TASKS + 1, {"scout"})

Params(chain, tasks, agent, task, sessionId, aborted, background) ==
  [chain |-> chain, tasks |-> tasks, agent |-> agent, task |-> task,
   sessionId |-> sessionId, aborted |-> aborted, background |-> background,
   agentScope |-> "user", confirmProjectAgents |-> TRUE, hasUI |-> TRUE]

ParallelParams ==
  {Params(<<>>, l, "", <<>>, NoSession, b, FALSE) : l \in ItemLists \cup OverLimit,
                                                    b \in BOOLEAN}
ChainParams == {Params(l, <<>>, "", <<>>, NoSession, b, FALSE) : l \in ItemLists, b \in BOOLEAN}
SingleParams ==
  {Params(<<>>, <<>>, a, <<1>>, s, b, FALSE) :
     a \in CallAgents, s \in 0..(MaxReq - 1), b \in BOOLEAN}

Events(O) ==
  \/ \E k \in Key : ChildExit(k, O)
  \/ \E k \in Key : SpawnError(k)
  \/ \E r \in Req : AbortFire(r)
  \/ \E r \in Req : GraceTimeout(r)

\* one parallel batch
NextParallel ==
  \/ Execute(1, ParallelParams)
  \/ WorkerPull(1)
  \/ BatchReturn(1)
  \/ Events(ExitOutcomes)

SpecParallel == Init /\ [][NextParallel]_vars

\* one chain
NextChain ==
  \/ Execute(1, ChainParams)
  \/ ChainNext(1)
  \/ Events(Outcomes)

SpecChain == Init /\ [][NextChain]_vars

\* several single calls, overlapping in time, with and without a session id
NextSingle ==
  \/ \E r \in Req : Execute(r, SingleParams)
  \/ \E r \in Req : SingleRun(r)
  \/ Events(ExitOutcomes)
  \/ Tick

SpecSingle == Init /\ [][NextSingle]_vars

\* one top-level request, a parallel batch or a chain
Next ==
  \/ Execute(1, ParallelParams)
  \/ Execute(1, ChainParams)
  \/ WorkerPull(1)
  \/ BatchReturn(1)
  \/ ChainNext(1)
  \/ Events(ExitOutcomes)

Spec == Init /\ [][Next]_vars

\* task templates of chain steps: without, with one and with two placeholders
Templates == {<<1>>, <<Placeholder>>, <<1, Placeholder, 2, Placeholder>>}

ChainTextParams ==
  {Params(l, <<>>, "", <<>>, NoSession, FALSE, FALSE) :
     l \in UNION {{[i \in 1..n |-> [agent |-> "scout", task |-> f[i]]] :
                      f \in [1..n -> Templates]} : n \in 1..MaxTextSteps}}

\* one chain whose steps have task templates and whose children write output
NextChainText ==
  \/ Execute(1, ChainTextParams)
  \/ ChainNext(1)
  \/ Events(TextOutcomes)

SpecChainText == Init /\ [][NextChainText]_vars

OneItem == <<[agent |-> "scout", task |-> <<1>>]>>

ShortLists == UNION {Items(n, ItemAgents) : n \in 1..MaxToolItems}

\* tool calls of every shape: no mode, half a single call, several modes at
\* once, a session id outside single mode, a batch over the ceiling, and
\* well-formed single, parallel and chain calls
Shapes ==
  {[chain |-> <<>>, tasks |-> <<>>, agent |-> "", task |-> <<>>, sessionId |-> NoSession],
   [chain |-> <<>>, tasks |-> <<>>, agent |-> "scout", task |-> <<>>, sessionId |-> NoSession],
   [chain |-> <<>>, tasks |-> OneItem, agent |-> "scout", task |-> <<1>>, sessionId |-> NoSession],
   [chain |-> OneItem, tasks |-> OneItem, agent |-> "", task |-> <<>>, sessionId |-> NoSession],
   [chain |-> OneItem, tasks |-> OneItem, agent |-> "scout", task |-> <<1>>, sessionId |-> 1],
   [chain |-> OneItem, tasks |-> <<>>, agent |-> "", task |-> <<>>, sessionId |-> 1],
   [chain |-> <<>>, tasks |-> OneItem, agent |-> "", task |-> <<>>, sessionId |-> 1]}
  \cup {[chain |-> <<>>, tasks |-> l, agent |-> "", task |-> <<>>, sessionId |-> NoSession] :
          l \in OverLimit \cup ShortLists}
  \cup {[chain |-> l, tasks |-> <<>>, agent |-> "", task |-> <<>>, sessionId |-> NoSession] :
          l \in ShortLists}
  \cup {[chain |-> <<>>, tasks |-> <<>>, agent |-> a, task |-> <<1>>, sessionId |-> x] :
          a \in CallAgents, x \in {NoSession, 1}}

ToolParams ==
  {Params(x.chain, x.tasks, x.agent, x.task, x.sessionId, FALSE, b) :
     x \in Shapes, b \in BOOLEAN}

\* one tool call of any shape, in the foreground or in the background
NextTool ==
  \/ Execute(1, ToolParams)
  \/ SingleRun(1)
  \/ WorkerPull(1)
  \/ BatchReturn(1)
  \/ ChainNext(1)
  \/ Events(ExitOutcomes)

SpecTool == Init /\ [][NextTool]_vars

\* the state after one single call of scout, made without a session id, has
\* returned: its session is in the store, with its transcript and prompt dir
InitResume ==
  /\ req = [r \in Req |-> ReqAbsent]
  /\ inv = <<>>
  /\ sessions = createSession(<<>>, 1, "scout", 0)
  /\ sessionCounter = 1
  /\ files = {1}
  /\ prompts = [oneShot |-> {}, session |-> {1}]
  /\ jobs = <<>>
  /\ jobCounter = 0
  /\ now = 0
  /\ latestCtx = "null"
  /\ notifications = <<>>
  /\ jobsReply = NoReply
  /\ InitPlan
  /\ InitLines
  /\ InitGrammar

ResumeParams ==
  {Params(<<>>, <<>>, a, <<1>>, x, FALSE, FALSE) : a \in KnownAgents, x \in {NoSession, 1}}

\* single calls that resume the session or start a new one, while transcripts
\* may be deleted from outside
NextResume ==
  \/ \E r \in Req : Execute(r, ResumeParams)
  \/ \E r \in Req : SingleRun(r)
  \/ Events(ExitOutcomes)
  \/ \E sid \in 1..(MaxReq + 1) : DeleteFile(sid)

SpecResume == InitResume /\ [][NextResume]_vars

\* batches and chains, with and without a session id, in the foreground and
\* in the background
OneShotParams ==
  {Params(l, <<>>, "", <<>>, x, FALSE, b) : l \in ShortLists, x \in {NoSession, 1}, b \in BOOLEAN}
  \cup {Params(<<>>, l, "", <<>>, x, FALSE, b) :
          l \in ShortLists, x \in {NoSession, 1}, b \in BOOLEAN}

\* one batch or chain while the store holds a session
NextOneShot ==
  \/ Execute(1, OneShotParams)
  \/ WorkerPull(1)
  \/ BatchReturn(1)
  \/ ChainNext(1)
  \/ Events(ExitOutcomes)
  \/ Tick

SpecOneShot == InitResume /\ [][NextOneShot]_vars

TwoItems == Items(2, {"scout"})

\* single calls in the foreground and in the background, background chains
JobParams ==
  {Params(<<>>, <<>>, a, <<1>>, NoSession, FALSE, b) : a \in {"scout", "ghost"}, b \in BOOLEAN}
  \cup {Params(l, <<>>, "", <<>>, NoSession, FALSE, TRUE) : l \in TwoItems}

\* several requests, overlapping in time, some of them background jobs
NextJobs ==
  \/ \E r \in Req : Execute(r, JobParams)
  \/ \E r \in Req : SingleRun(r)
  \/ \E r \in Req : ChainNext(r)
  \/ Events({Outcome(0, "stop", <<>>), Outcome(1, "none", <<>>)})
  \/ Tick

SpecJobs == Init /\ [][NextJobs]_vars

\* background jobs only: a single call of an unknown worker, and chains of
\* two steps
BackgroundParams ==
  {Params(<<>>, <<>>, "ghost", <<1>>, NoSession, FALSE, TRUE)}
  \cup {Params(l, <<>>, "", <<>>, NoSession, FALSE, TRUE) : l \in TwoItems}

\* the job registry under submissions, completions, the clear operation, the
\* abort of all jobs and idle periods.  The agent loop emits agent_start
\* before it calls a tool.
NextRegistry ==
  \/ AgentStart
  \/ latestCtx # "null" /\ \E r \in Req : Execute(r, BackgroundParams)
  \/ \E r \in Req : SingleRun(r)
  \/ \E r \in Req : ChainNext(r)
  \/ \E k \in Key : ChildExit(k, {Outcome(0, "stop", <<>>), Outcome(1, "none", <<>>)})
  \/ \E k \in Key : SpawnError(k)
  \/ \E r \in Req : GraceTimeout(r)
  \/ Tick
  \/ SubagentJobs("clear", NoJob)
  \/ AbortAllJobs

SpecRegistry == Init /\ [][NextRegistry]_vars

\* a finished job of an earlier request
OldJob ==
  [status |-> "completed", mode |-> "single", agent |-> "scout", req |-> 0,
   startedAt |-> 0, finishedAt |-> 0,
   result |-> Response("single", FALSE, <<>>, 0, 0, "scout")]

\* a registry one over the ceiling of finished jobs, all finished since the
\* last registration, and the background chain of request 1 still running,
\* its first step about to start
InitRegistry ==
  /\ req = [r \in Req |->
       IF r = 1
       THEN [ReqAbsent EXCEPT !.chain = CHOOSE l \in TwoItems : TRUE,
                              !.background = TRUE,
                              !.jobId = COMPLETED_JOB_MAX_COUNT + 2,
                              !.mode = "chain", !.state = "running", !.ready = 1]
       ELSE ReqAbsent]
  /\ inv = <<>>
  /\ sessions = <<>>
  /\ sessionCounter = 0
  /\ files = {}
  /\ prompts = NoPrompts
  /\ jobs = [j \in 1..(COMPLETED_JOB_MAX_COUNT + 2) |->
              IF j <= COMPLETED_JOB_MAX_COUNT + 1 THEN OldJob
              ELSE NewJob(1, "chain", "scout", 0)]
  /\ jobCounter = COMPLETED_JOB_MAX_COUNT + 2
  /\ now = 0
  /\ latestCtx = "ctx"
  /\ notifications = <<>>
  /\ jobsReply = NoReply
  /\ InitPlan
  /\ InitLines
  /\ InitGrammar

\* submissions, completions, clears and idle periods, in any order
NextFullRegistry ==
  \/ \E r \in Req : Execute(r, BackgroundParams)
  \/ \E r \in Req : SingleRun(r)
  \/ \E r \in Req : ChainNext(r)
  \/ \E k \in Key : ChildExit(k, {Outcome(0, "stop", <<>>), Outcome(1, "none", <<>>)})
  \/ \E k \in Key : SpawnError(k)
  \/ Tick
  \/ SubagentJobs("clear", NoJob)

SpecFullRegistry == InitRegistry /\ [][NextFullRegistry]_vars

\* requests of every scope and confirmation policy, with and without a UI,
\* that name user and project workers
ScopedShapes ==
  {Params(<<>>, <<>>, a, <<1>>, NoSession, FALSE, b) : a \in {"scout", "worker", "local"},
                                                        b \in BOOLEAN}
  \cup {Params(l, <<>>, "", <<>>, NoSession, FALSE, b) : l \in Items(2, {"scout", "local"}),
                                                         b \in BOOLEAN}
  \cup {Params(<<>>, l, "", <<>>, NoSession, FALSE, b) : l \in Items(2, {"scout", "local"}),
                                                         b \in BOOLEAN}
  \cup {Params(OneItem, OneItem, "local", <<1>>, NoSession, FALSE, FALSE)}

ScopedParams ==
  {[p EXCEPT !.agentScope = s, !.confirmProjectAgents = c, !.hasUI = u] :
     p \in ScopedShapes, s \in {"user", "project", "both"}, c \in BOOLEAN, u \in BOOLEAN}

\* one tool call and the answer to its confirmation prompt
NextConfirm ==
  \/ Execute(1, ScopedParams)
  \/ \E ok \in BOOLEAN : Confirm(1, ok)
  \/ SingleRun(1)
  \/ WorkerPull(1)
  \/ BatchReturn(1)
  \/ ChainNext(1)
  \/ \E k \in Key : ChildExit(k, {Outcome(0, "stop", <<>>), Outcome(1, "none", <<>>)})
  \/ \E k \in Key : SpawnError(k)

SpecConfirm == Init /\ [][NextConfirm]_vars

\* the agent_end handler reads the last message and opens the dialog
Asks(hasUI) == ~(executionMode /\ todoItems # <<>>) /\ planModeEnabled /\ hasUI

\* the tags of one assistant message: none, or one step marked done
DoneTags == {{}} \cup {{i} : i \in 1..MaxTodos}

\* plan mode alone: toggles, turns, ends of agent runs, session starts
NextPlan ==
  \/ togglePlanMode
  \/ \E done \in DoneTags : TurnEnd(done)
  \/ \E hasUI \in BOOLEAN :
       IF Asks(hasUI)
       THEN \E n \in 0..MaxTodos, choice \in PlanChoices : AgentEnd(hasUI, n, choice)
       ELSE AgentEnd(hasUI, 0, "undefined")
  \/ \E fresh \in BOOLEAN, session \in {"same", "new"} :
       \E flag \in IF fresh THEN BOOLEAN ELSE {planFlag} : SessionStart(fresh, flag, session)

SpecPlan == Init /\ [][NextPlan]_vars

\* the segments of one chunk of data; a chunk of n segments holds n - 1
\* newlines
Segments == {<<>>} \cup {<<a>> : a \in Atoms \cup Bytes} \cup {<<"A", "B">>, <<"H", "L">>}
Chunks(n) == [1..n -> Segments]

\* one subprocess and its output
NextStream ==
  \/ \E onUpdate \in BOOLEAN : Spawn(onUpdate)
  \/ \E n \in 1..(MaxLines - Len(arrived) + 1) : \E segments \in Chunks(n) :
       StdoutData(segments)
  \/ Close

SpecStream == Init /\ [][NextStream]_vars

\* a store at its ceiling: SESSION_MAX_COUNT sessions of earlier single calls,
\* last used zero, one or two hours ago (none of them expired), ids not in
\* the order of their last use.  busy = "none": all of them idle; "oldest":
\* those used two hours ago are still in use (their calls, started before
\* the ones followed here, are running and do not end); "all": all in use
StoredSession(id, busy) ==
  [agent |-> "scout", sessionFilePath |-> id, lastUsedAt |-> 0 - (id % 3),
   inUse |-> (busy = "all" \/ (busy = "oldest" /\ id % 3 = 2))]

InitStore ==
  /\ req = [r \in Req |-> ReqAbsent]
  /\ inv = <<>>
  /\ \E busy \in {"none", "oldest", "all"} :
       sessions = [id \in 1..SESSION_MAX_COUNT |-> StoredSession(id, busy)]
  /\ sessionCounter = SESSION_MAX_COUNT
  /\ files = 1..SESSION_MAX_COUNT
  /\ prompts = [oneShot |-> {}, session |-> 1..SESSION_MAX_COUNT]
  /\ jobs = <<>>
  /\ jobCounter = 0
  /\ now = 0
  /\ latestCtx = "null"
  /\ notifications = <<>>
  /\ jobsReply = NoReply
  /\ InitPlan
  /\ InitLines
  /\ InitGrammar

StoreParams ==
  {Params(<<>>, <<>>, "scout", <<1>>, x, FALSE, FALSE) : x \in {NoSession, 1, 2}}

\* single calls that start a new session or resume a stored one, and idle
\* periods, on a full store
NextStore ==
  \/ \E r \in Req : Execute(r, StoreParams)
  \/ \E r \in Req : SingleRun(r)
  \/ \E k \in Key : ChildExit(k, {Outcome(0, "stop", <<>>)})
  \/ Tick

SpecStore == InitStore /\ [][NextStore]_vars

\* a finished job of an earlier call: the jobs with an even id finished an
\* hour ago, the others just now
StoredJob(j) == [OldJob EXCEPT !.startedAt = 0 - 1, !.finishedAt = 0 - ((j + 1) % 2)]

\* a registry two over the ceiling of finished jobs, all of them finished
\* since the last submission (only a submission sweeps)
InitSweep ==
  /\ req = [r \in Req |-> ReqAbsent]
  /\ inv = <<>>
  /\ sessions = <<>>
  /\ sessionCounter = 0
  /\ files = {}
  /\ prompts = NoPrompts
  /\ jobs = [j \in 1..(COMPLETED_JOB_MAX_COUNT + 2) |-> StoredJob(j)]
  /\ jobCounter = COMPLETED_JOB_MAX_COUNT + 2
  /\ now = 0
  /\ latestCtx = "ctx"
  /\ notifications = <<>>
  /\ jobsReply = NoReply
  /\ InitPlan
  /\ InitLines
  /\ InitGrammar

\* background submissions, completions and idle periods on a full registry
NextSweep ==
  \/ \E r \in Req : Execute(r, BackgroundParams)
  \/ \E r \in Req : SingleRun(r)
  \/ \E r \in Req : ChainNext(r)
  \/ \E k \in Key : ChildExit(k, {Outcome(0, "stop", <<>>), Outcome(1, "none", <<>>)})
  \/ \E k \in Key : SpawnError(k)
  \/ Tick

SpecSweep == InitSweep /\ [][NextSweep]_vars

PromptParams ==
  {Params(l, <<>>, "", <<>>, NoSession, a, b) : l \in ShortLists, a \in BOOLEAN, b \in BOOLEAN}
  \cup {Params(<<>>, l, "", <<>>, NoSession, a, b) :
          l \in ShortLists, a \in BOOLEAN, b \in BOOLEAN}
  \cup {Params(<<>>, <<>>, n, <<1>>, x, a, b) :
          n \in KnownAgents, x \in {NoSession, 1}, a \in BOOLEAN, b \in BOOLEAN}

\* one call of any mode while the store holds a session with a prompt
\* directory: aborts, failed spawns, deleted transcripts, idle periods and
\* the abort of all jobs
NextPrompts ==
  \/ Execute(1, PromptParams)
  \/ SingleRun(1)
  \/ WorkerPull(1)
  \/ BatchReturn(1)
  \/ ChainNext(1)
  \/ Events(ExitOutcomes)
  \/ DeleteFile(1)
  \/ Tick
  \/ AbortAllJobs

SpecPrompts == InitResume /\ [][NextPrompts]_vars

ProgressParams ==
  {Params(<<>>, l, "", <<>>, NoSession, FALSE, FALSE) :
     l \in Items(2, {"scout"}) \cup Items(MaxItems, {"scout"})}

\* one parallel batch whose children report progress.  The workers of the
\* pool start their first items in one turn of the event loop, so a failed
\* spawn is reported when no worker is ready to pull
NextProgress ==
  \/ Execute(1, ProgressParams)
  \/ WorkerPull(1)
  \/ BatchReturn(1)
  \/ \E k \in Key : ChildProgress(k)
  \/ \E k \in Key : ChildExit(k, {Outcome(0, "stop", <<>>), Outcome(1, "none", <<>>)})
  \/ \E k \in Key : (\A r \in Req : req[r].ready = 0) /\ SpawnError(k)
  \/ \E r \in Req : AbortFire(r)
  \/ \E r \in Req : GraceTimeout(r)

SpecProgress == Init /\ [][NextProgress]_vars

SpecGrammar == Init /\ [][NextGrammar]_vars

\* the close handler of child k throws: the last line of the output, without
\* a newline, is the JSON text null, processLine(buffer) throws in the handler
\* and resolve is never called; the exit promise stays pending
CloseThrows(k) ==
  /\ Quiescent
  /\ Started(k)
  /\ inv[k].pc = "running" /\ inv[k].proc = "alive"
  /\ inv' = [inv EXCEPT ![k].proc = "exited"]
  /\ UNCHANGED <<req, sessions, sessionCounter, files, prompts, jobs, jobCounter, now,
                 latestCtx, notifications, jobsReply, planVars, lineVars, grammarVars>>

\* background jobs of every mode: a single call of a known worker, of an
\* unknown worker and with a session id that is not stored, a batch and a
\* chain of two items
LiveParams ==
  {Params(<<>>, <<>>, a, <<1>>, x, FALSE, TRUE) : a \in {"scout", "ghost"}, x \in {NoSession, 1}}
  \cup {Params(l, <<>>, "", <<>>, NoSession, FALSE, TRUE) : l \in TwoItems}
  \cup {Params(<<>>, l, "", <<>>, NoSession, FALSE, TRUE) : l \in TwoItems}

LiveOutcomes == {Outcome(0, "stop", <<>>), Outcome(1, "none", <<>>)}

\* one background job, its children, and the shutdown of the process
NextLive ==
  \/ Execute(1, LiveParams)
  \/ SingleRun(1)
  \/ WorkerPull(1)
  \/ BatchReturn(1)
  \/ ChainNext(1)
  \/ \E k \in Key : ChildExit(k, LiveOutcomes)
  \/ \E k \in Key : CloseThrows(k)
  \/ \E k \in Key : SpawnError(k)
  \/ AbortAllJobs
  \/ GraceTimeout(1)

\* the continuations of settled promises run, and every child that was
\* spawned exits (or its spawn fails)
LiveFairness ==
  /\ WF_vars(SingleRun(1)) /\ WF_vars(WorkerPull(1))
  /\ WF_vars(BatchReturn(1)) /\ WF_vars(ChainNext(1))
  /\ \A i \in 1..2 : WF_vars(ChildExit(<<1, i>>, LiveOutcomes) \/ CloseThrows(<<1, i>>))
  /\ \A i \in 1..2 : WF_vars(SpawnError(<<1, i>>))

SpecLive == Init /\ [][NextLive]_vars /\ LiveFairness


\* parallel batches of a known agent whose children end in every way
BatchParams ==
  {Params(<<>>, l, "", <<>>, NoSession, FALSE, FALSE) : l \in Items(MaxItems, {"scout"})}

NextBatch ==
  \/ Execute(1, BatchParams)
  \/ WorkerPull(1)
  \/ BatchReturn(1)
  \/ \E k \in Key : ChildExit(k, Outcomes)
  \/ \E k \in Key : SpawnError(k)

SpecBatch == Init /\ [][NextBatch]_vars


TypeOK ==
  /\ \A r \in Req : req[r].state \in {"absent", "running", "returned", "thrown"}
  /\ DOMAIN inv \subseteq Key
  /\ \A k \in DOMAIN inv : inv[k].pc \in {"running", "returned", "thrown"}
  /\ sessionCounter \in 0..(MaxReq + 1)
  /\ files \subseteq 1..(MaxReq + 1)
  /\ prompts.oneShot \subseteq Key /\ prompts.session \subseteq 1..(MaxReq + 1)
  /\ DOMAIN jobs \subseteq 1..MaxReq /\ jobCounter \in 0..MaxReq


(* ---------------- properties ---------------- *)
InvOf(r) == {k \in DOMAIN inv : k[1] = r}
Running(r) == {k \in InvOf(r) : inv[k].pc = "running"}
ItemsStarted(r) == {k[2] : k \in InvOf(r)}
StartsNow(k) == k \notin DOMAIN inv /\ k \in DOMAIN inv'

\* C1: a parallel batch of 1..8 items that returns has exactly one result per
\* requested item, and result i carries the worker name and the task of
\* requested item i, whatever the order in which the children ended.
C1_ResultsInRequestOrder ==
  \A r \in Req : req[r].mode = "parallel" /\ req[r].state = "returned" =>
    LET res == req[r].response.results
        n == Len(req[r].tasks)
    IN /\ n \in 1..MAX_PARALLEL_TASKS
       /\ Len(res) = n
       /\ \A i \in 1..n : /\ res[i].agent = req[r].tasks[i].agent
                          /\ res[i].task = req[r].tasks[i].task

\* a returned batch larger than the pool, with children that succeeded and failed
C1_Witness ==
  \E r \in Req :
    /\ req[r].mode = "parallel" /\ req[r].state = "returned"
    /\ Len(req[r].tasks) > MAX_CONCURRENCY
    /\ \E i, j \in 1..Len(req[r].tasks) :
         /\ i < j
         /\ req[r].response.results[i].exitCode # 0
         /\ req[r].response.results[j].exitCode = 0

\* C2: at every moment of a parallel batch at most 4 of its invocations, and
\* at most as many as it has items, are started and not yet ended.
C2_AtMostFourChildren ==
  \A r \in Req : req[r].mode = "parallel" =>
    /\ Cardinality(Running(r)) <= MAX_CONCURRENCY
    /\ Cardinality(Running(r)) <= Len(req[r].tasks)

\* four children alive while a further item waits for a free worker
C2_Witness ==
  \E r \in Req :
    /\ req[r].mode = "parallel"
    /\ Cardinality({k \in Running(r) : inv[k].proc = "alive"}) = MAX_CONCURRENCY
    /\ req[r].nextIndex < Len(req[r].tasks)

\* C3: in a parallel batch no item is invoked twice, and when the batch
\* returns every item has been invoked and has ended, the response is not an
\* error, and the failures show only in the success count.
C3_FailureSparesSiblings ==
  \A r \in Req : req[r].mode = "parallel" =>
    /\ \A k \in InvOf(r) : inv[k].runs = 1
    /\ req[r].state = "returned" =>
         /\ \A i \in 1..Len(req[r].tasks) :
              /\ <<r, i>> \in DOMAIN inv
              /\ inv[<<r, i>>].pc = "returned"
              /\ req[r].response.results[i] = ResultOf(inv[<<r, i>>])
         /\ ~req[r].response.isError
         /\ req[r].response.successCount =
              Cardinality({i \in 1..Len(req[r].tasks) : inv[<<r, i>>].exitCode = 0})

\* a returned batch larger than the pool whose first item failed, with an
\* unknown worker among the items and a sibling that succeeded
C3_Witness ==
  \E r \in Req :
    /\ req[r].mode = "parallel" /\ req[r].state = "returned"
    /\ Len(req[r].tasks) > MAX_CONCURRENCY
    /\ inv[<<r, 1>>].proc = "exited" /\ inv[<<r, 1>>].exitCode # 0
    /\ \E i \in 1..Len(req[r].tasks) : inv[<<r, i>>].stderr = "unknown_agent"
    /\ req[r].response.successCount > 0

\* the invocations running on session sid
Holders(sid) == {k \in DOMAIN inv : inv[k].pc = "running" /\ inv[k].session = sid}

C4_State ==
  /\ \A k \in DOMAIN inv : inv[k].session # NoSession => Cardinality(Holders(inv[k].session)) <= 1
  /\ \A k \in DOMAIN inv : inv[k].stderr = "in_use" =>
       /\ inv[k].pc = "returned" /\ inv[k].proc = "none" /\ inv[k].exitCode = 1
       /\ req[k[1]].state = "returned" /\ req[k[1]].response.isError

C4_Step ==
  \A k \in Key :
    (StartsNow(k) /\ inv'[k].sessArg # NoSession /\ Holders(inv'[k].sessArg) # {}) =>
      /\ inv'[k].pc = "returned" /\ inv'[k].proc = "none" /\ inv'[k].exitCode = 1
      /\ req'[k[1]].state = "returned" /\ req'[k[1]].response.isError
      /\ sessions' = sessions

\* C4: no session ever has two invocations running on it, and an invocation
\* that names a session while another invocation runs on it ends at once
\* with a failed result, without a subprocess, and its request returns
\* instead of waiting.
C4_SessionMutualExclusion == []C4_State /\ [][C4_Step]_vars

\* an invocation rejected as in-use while the holder of the session still runs
C4_Witness ==
  \E k, j \in DOMAIN inv :
    /\ inv[j].pc = "running" /\ inv[j].session # NoSession
    /\ inv[k].sessArg = inv[j].session /\ inv[k].stderr = "in_use"

\* C5: a session of the store is flagged in-use exactly while an invocation
\* that created or resumed it has not yet returned or thrown.
C5_InUseExactlyWhileHeld ==
  \A sid \in DOMAIN sessions : sessions[sid].inUse <=> Holders(sid) # {}

\* a session back to not-in-use after an invocation on it ended in failure
C5_Witness ==
  \E k \in DOMAIN inv :
    /\ inv[k].pc = "returned" /\ inv[k].session # NoSession /\ inv[k].exitCode # 0
    /\ inv[k].session \in DOMAIN sessions /\ ~sessions[inv[k].session].inUse

C6_State ==
  /\ \A r \in Req : req[r].mode = "single" /\ req[r].firedAt = "running"
                      /\ req[r].state # "running" =>
       /\ req[r].state = "thrown" /\ req[r].response = NoResponse
       /\ inv[<<r, 1>>].pc = "thrown"
  /\ \A k \in DOMAIN inv : inv[k].pc = "thrown" => inv[k].session \notin DOMAIN sessions

C6_Step ==
  \A k \in Key :
    (/\ StartsNow(k) /\ inv'[k].agent \in KnownAgents
     /\ \E j \in DOMAIN inv : inv[j].pc = "thrown" /\ inv[j].session # NoSession
                               /\ inv[j].session = inv'[k].sessArg) =>
      /\ inv'[k].pc = "returned" /\ inv'[k].proc = "none"
      /\ inv'[k].stderr = "session_not_found"

\* C6: a single call whose signal fires while its subprocess runs ends by
\* throwing, with no response, whatever the subprocess exits with; the session
\* it ran on is gone from the store from then on, and every later call of a
\* resolvable worker with that session id is rejected as session not found,
\* without a subprocess.
C6_AbortedSingleDropsSession == []C6_State /\ [][C6_Step]_vars

\* a resume rejected as not found after the call that created the session
\* was cancelled mid-run
C6_Witness ==
  \E k, j \in DOMAIN inv :
    /\ j[1] < k[1]
    /\ inv[j].pc = "thrown" /\ req[j[1]].firedAt = "running"
    /\ inv[j].session # NoSession
    /\ inv[k].sessArg = inv[j].session /\ inv[k].stderr = "session_not_found"

\* C7: once the grace window after the termination request has expired, a
\* subprocess that is still alive has been sent the forced kill.
C7_ForcedKillAfterGrace ==
  \A k \in DOMAIN inv :
    inv[k].timer = "fired" /\ inv[k].proc = "alive" => inv[k].killSent

\* C8: once the signal of a running batch or chain has fired, every
\* subprocess that was alive at that moment has been sent the termination
\* request, no item or step that was not started by then is started, and the
\* request never returns a response.
C8_AbortReachesEveryChild ==
  \A r \in Req : req[r].firedAt = "running" =>
    /\ \A i \in req[r].abortedWhile : inv[<<r, i>>].termSent
    /\ ItemsStarted(r) = req[r].startedAtAbort
    /\ req[r].state # "returned"

\* a batch cancelled with four children alive and an item still waiting,
\* failed as aborted
C8_Witness ==
  \E r \in Req :
    /\ req[r].mode = "parallel" /\ req[r].firedAt = "running"
    /\ req[r].state = "thrown"
    /\ Cardinality(req[r].abortedWhile) = MAX_CONCURRENCY
    /\ Cardinality(ItemsStarted(r)) < Len(req[r].tasks)

FirstFailure(res) ==
  IF \E i \in 1..Len(res) : isError(res[i])
  THEN Min({i \in 1..Len(res) : isError(res[i])}) ELSE 0

\* C9: when a chain returns and step k is the first step with a non-success
\* outcome, the results are exactly those of steps 1..k in step order, the
\* response is flagged as an error, and it names step k and step k's worker.
C9_ChainStopsAtFirstFailure ==
  \A r \in Req : req[r].mode = "chain" /\ req[r].state = "returned" =>
    LET res == req[r].response.results
        k == FirstFailure(res)
    IN k # 0 =>
         /\ Len(res) = k
         /\ req[r].response.isError
         /\ req[r].response.kind = "chain_stopped"
         /\ req[r].response.step = k
         /\ req[r].response.agent = req[r].chain[k].agent
         /\ \A i \in 1..k : res[i].step = i /\ res[i].agent = req[r].chain[i].agent

\* a chain stopped at a step after the first, with steps left over
C9_Witness ==
  \E r \in Req :
    /\ req[r].mode = "chain" /\ req[r].state = "returned"
    /\ req[r].response.kind = "chain_stopped"
    /\ req[r].response.step > 1
    /\ req[r].response.step < Len(req[r].chain)

\* C10: at most one invocation of a chain is in flight at any time, and a
\* step that has been started follows a step whose subprocess has exited and
\* whose outcome is a success.
C10_ChainStrictlySequential ==
  \A r \in Req : req[r].mode = "chain" =>
    /\ Cardinality(Running(r)) <= 1
    /\ \A k \in InvOf(r) : k[2] > 1 =>
         /\ <<r, k[2] - 1>> \in DOMAIN inv
         /\ inv[<<r, k[2] - 1>>].pc = "returned"
         /\ inv[<<r, k[2] - 1>>].proc = "exited"
         /\ ~isError(ResultOf(inv[<<r, k[2] - 1>>]))

\* the third step's subprocess alive
C10_Witness ==
  \E r \in Req :
    /\ req[r].mode = "chain"
    /\ <<r, 3>> \in DOMAIN inv /\ inv[<<r, 3>>].proc = "alive"

\* the template with every placeholder replaced by the text out as it is
ReplacePreviousLiteral(template, out) ==
  LET RECURSIVE lit(_)
      lit(i) == IF i > Len(template) THEN <<>>
                ELSE (IF template[i] = Placeholder THEN out ELSE <<template[i]>>)
                     \o lit(i + 1)
  IN lit(1)

\* C11: the task text handed to step i of a chain is step i's template with
\* every placeholder replaced by the final output of step i-1 as it is (the
\* empty text for the first step), whatever that output contains.
C11_PreviousSubstitutedLiterally ==
  \A r \in Req : req[r].mode = "chain" =>
    \A k \in InvOf(r) :
      inv[k].task =
        ReplacePreviousLiteral(req[r].chain[k[2]].task,
          IF k[2] = 1 THEN <<>> ELSE getFinalOutput(inv[<<r, k[2] - 1>>].messages))

\* C12: a parallel request with more than 8 items has returned the count-limit
\* response with an empty result list, and no invocation of it was started, no
\* session and no prompt directory was created for it.
C12_TooManyItemsRejected ==
  \A r \in Req : Len(req[r].tasks) > MAX_PARALLEL_TASKS /\ req[r].chain = <<>>
                    /\ req[r].agent = "" =>
    /\ req[r].state = "returned"
    /\ req[r].response.kind = "too_many_tasks"
    /\ req[r].response.results = <<>>
    /\ InvOf(r) = {}
    /\ sessions = <<>> /\ sessionCounter = 0 /\ files = {} /\ prompts = NoPrompts

\* a batch of nine items was submitted
C12_Witness ==
  \E r \in Req : Len(req[r].tasks) = MAX_PARALLEL_TASKS + 1 /\ req[r].state = "returned"

\* the number of shapes a request names
ShapesNamed(q) ==
  Cardinality({m \in {"single", "parallel", "chain"} :
                 \/ m = "single" /\ q.agent # "" /\ q.task # <<>>
                 \/ m = "parallel" /\ q.tasks # <<>>
                 \/ m = "chain" /\ q.chain # <<>>})

JobsOf(r) == {j \in DOMAIN jobs : jobs[j].req = r}

\* nothing was spawned or created in the run
NothingCreated ==
  /\ inv = <<>> /\ sessions = <<>> /\ sessionCounter = 0
  /\ files = {} /\ prompts = NoPrompts

\* C13: a request that names no shape or more than one has returned the
\* validation response with no results; no invocation, session, prompt
\* directory or background job exists for it; and every request with an
\* invocation names exactly one shape.
C13_ExactlyOneShape ==
  \A r \in Req :
    /\ req[r].state # "absent" /\ ShapesNamed(req[r]) # 1 =>
         /\ req[r].state = "returned"
         /\ req[r].response.kind = "invalid_parameters"
         /\ req[r].response.results = <<>>
         /\ NothingCreated
         /\ req[r].jobId = NoJob /\ JobsOf(r) = {} /\ jobCounter = 0
    /\ InvOf(r) # {} => ShapesNamed(req[r]) = 1

\* a background request naming several shapes was rejected
C13_Witness ==
  \E r \in Req : /\ req[r].background /\ ShapesNamed(req[r]) > 1
                  /\ req[r].response.kind = "invalid_parameters"

\* the response is one of the validation rejections
ValidationRejected(q) ==
  q.response.kind \in {"invalid_parameters", "session_single_only", "too_many_tasks"}

\* C14: a request rejected by validation has no background job: none was
\* registered for it, so none of it ends as completed.
C14_RejectedLeavesNoJob ==
  \A r \in Req : ValidationRejected(req[r]) =>
    /\ req[r].jobId = NoJob /\ JobsOf(r) = {} /\ jobCounter = 0
    /\ NothingCreated

\* the invocations rejected because the transcript of their session was gone
Stale == {k \in DOMAIN inv : inv[k].stderr = "file_missing"}

C15_State ==
  \A k \in Stale :
    /\ inv[k].pc = "returned" /\ inv[k].proc = "none" /\ inv[k].exitCode = 1
    /\ req[k[1]].state = "returned" /\ req[k[1]].response.isError
    /\ inv[k].sessArg \notin DOMAIN sessions
    /\ \A j \in DOMAIN inv : j[1] > k[1] => inv[j].session # inv[k].sessArg

C15_Step ==
  \A k \in Key : StartsNow(k) /\ inv'[k].sessArg # NoSession
                    /\ inv'[k].agent \in KnownAgents =>
    LET sid == inv'[k].sessArg IN
    /\ (/\ sid \in DOMAIN sessions /\ sessions[sid].agent = inv'[k].agent
        /\ ~sessions[sid].inUse /\ sid \notin files)
         => /\ inv'[k].stderr = "file_missing" /\ inv'[k].proc = "none"
            /\ sid \notin DOMAIN sessions'
            /\ sessionCounter' = sessionCounter
    /\ (\E j \in Stale : inv[j].sessArg = sid)
         => /\ inv'[k].stderr = "session_not_found" /\ inv'[k].proc = "none"
            /\ sessions' = sessions /\ sessionCounter' = sessionCounter

\* C15: a resume of a session whose transcript is gone ends at once with a
\* failed result, without a subprocess, and takes the entry out of the store;
\* from then on the id is never in the store again, no invocation runs on
\* it, and every resume of a resolvable worker with it is rejected as session
\* not found.
C15_StaleSessionPurged == []C15_State /\ [][C15_Step]_vars

\* a second resume rejected as not found after the first found the transcript
\* deleted
C15_Witness ==
  \E k, j \in DOMAIN inv :
    /\ j[1] < k[1] /\ inv[j].stderr = "file_missing"
    /\ inv[k].sessArg = inv[j].sessArg /\ inv[k].stderr = "session_not_found"

Preconditions == {"session_not_found", "wrong_agent", "in_use"}

C16_State ==
  \A k \in DOMAIN inv : inv[k].stderr \in Preconditions =>
    /\ inv[k].pc = "returned" /\ inv[k].proc = "none"
    /\ inv[k].exitCode = 1 /\ inv[k].completed
    /\ inv[k].session = NoSession /\ inv[k].sessionId = NoSession

C16_Step ==
  \A k \in Key : StartsNow(k) /\ inv'[k].sessArg # NoSession
                    /\ inv'[k].agent \in KnownAgents =>
    LET sid == inv'[k].sessArg
        why == IF sid \notin DOMAIN sessions THEN "session_not_found"
               ELSE IF sessions[sid].agent # inv'[k].agent THEN "wrong_agent"
               ELSE IF sessions[sid].inUse THEN "in_use"
               ELSE "none"
    IN
    /\ why # "none" => inv'[k].stderr = why
    /\ inv'[k].stderr \in Preconditions =>
         /\ inv'[k].stderr = why
         /\ sessions' = sessions /\ files' = files /\ prompts' = prompts
         /\ sessionCounter' = sessionCounter
         /\ \A j \in DOMAIN inv : inv'[j] = inv[j]

\* C16: a resume naming an id that is not in the store, a session of another
\* worker, or a session in use ends at once with a failed result (exit status
\* 1, completed) that names this precondition, without a subprocess; the
\* store, the transcripts, the prompt directories and every other invocation
\* are as before, so the in-use flag of a running invocation stays set.
C16_RejectedResumeChangesNothing == []C16_State /\ [][C16_Step]_vars

\* a resume rejected as in use while the holder, which resumed the session
\* itself, still runs with the flag set
C16_Witness ==
  \E k, j \in DOMAIN inv :
    /\ inv[j].pc = "running" /\ inv[j].launch = "continue"
    /\ inv[k].stderr = "in_use" /\ inv[k].sessArg = inv[j].session
    /\ sessions[inv[j].session].inUse

C17_State ==
  \A k \in DOMAIN inv : inv[k].agent \notin KnownAgents =>
    /\ inv[k].pc = "returned" /\ inv[k].proc = "none"
    /\ inv[k].exitCode # 0 /\ inv[k].completed
    /\ inv[k].stderr = "unknown_agent"
    /\ inv[k].session = NoSession /\ inv[k].sessionId = NoSession
    /\ k \notin prompts.oneShot

C17_Step ==
  \A k \in Key : StartsNow(k) /\ inv'[k].agent \notin KnownAgents =>
    /\ sessions' = sessions /\ sessionCounter' = sessionCounter
    /\ files' = files /\ prompts' = prompts

\* C17: an invocation naming a worker that is not among the resolved
\* profiles ends at once with a failed result (exit status not 0, completed)
\* that names the unknown worker, without a subprocess, and its call leaves
\* the sessions, the transcripts and the prompt directories as they were; in
\* single calls, batches and chains.
C17_UnknownWorkerRejected == []C17_State /\ [][C17_Step]_vars

\* in a batch, an item with an unknown worker was rejected while the child of
\* a sibling runs on its prompt directory
C17_Witness ==
  \E k, j \in DOMAIN inv :
    /\ k[1] = j[1] /\ req[k[1]].mode = "parallel"
    /\ inv[k].stderr = "unknown_agent"
    /\ inv[j].proc = "alive" /\ j \in prompts.oneShot

\* C18: while batches and chains run, the session store, the transcripts and
\* the prompt directories of sessions stay as they were; every invocation of
\* a batch or chain is launched without a session and carries no session id
\* in its result; and a batch or chain request with a session id has
\* returned the rejection with no invocation started.
C18_ChainAndParallelOneShot ==
  /\ sessions = createSession(<<>>, 1, "scout", 0)
  /\ sessionCounter = 1 /\ files = {1} /\ prompts.session = {1}
  /\ \A k \in DOMAIN inv :
       /\ inv[k].session = NoSession /\ inv[k].sessionId = NoSession
       /\ inv[k].launch \in {"none", "no-session"}
  /\ \A r \in Req :
       /\ \A i \in 1..Len(req[r].response.results) :
            req[r].response.results[i].sessionId = NoSession
       /\ req[r].sessionId # NoSession =>
            /\ req[r].state = "returned"
            /\ req[r].response.kind = "session_single_only"
            /\ InvOf(r) = {} /\ JobsOf(r) = {}

\* a chain of two steps has returned, after an idle period longer than the
\* age threshold, and the session is still there
C18_Witness ==
  \E r \in Req :
    /\ req[r].mode = "chain" /\ req[r].state = "returned"
    /\ Len(req[r].response.results) = 2
    /\ inv[<<r, 2>>].proc = "exited"
    /\ now > SESSION_MAX_AGE
    /\ 1 \in DOMAIN sessions

\* the invocations that returned the session id sid to their caller
Returned(sid) ==
  {j \in DOMAIN inv : inv[j].pc = "returned" /\ inv[j].sessionId = sid}

\* every single invocation that ran a subprocess and was not cancelled
\* returns the id of its session
C19_State ==
  \A k \in DOMAIN inv : req[k[1]].mode = "single" /\ inv[k].pc = "returned"
                          /\ inv[k].proc = "exited" =>
    /\ inv[k].sessionId # NoSession /\ inv[k].sessionId = inv[k].session
    /\ inv[k].launch = "continue" => inv[k].sessionId = inv[k].sessArg

\* the call passing a returned id continues the transcript of that id
C19_Continues(k) ==
  /\ inv'[k].launch = "continue" /\ inv'[k].session = inv'[k].sessArg
  /\ \A j \in Returned(inv'[k].sessArg) : inv'[k].file = inv[j].file

C19_StepAlways ==
  \A k \in Key :
    (/\ StartsNow(k) /\ inv'[k].sessArg # NoSession
     /\ \E j \in Returned(inv'[k].sessArg) : inv[j].agent = inv'[k].agent)
    => C19_Continues(k)

C19_StepIfUsable ==
  \A k \in Key :
    (/\ StartsNow(k) /\ inv'[k].sessArg # NoSession
     /\ \E j \in Returned(inv'[k].sessArg) : inv[j].agent = inv'[k].agent
     /\ inv'[k].sessArg \in DOMAIN sessions
     /\ ~sessions[inv'[k].sessArg].inUse
     /\ inv'[k].sessArg \in files)
    => C19_Continues(k)

\* C19 as stated: a single invocation that is not cancelled returns a session
\* id, and every later single call of the same worker that passes this id is
\* launched in continue mode on the transcript of the first and returns the
\* same id.
C19_ResumeAlwaysContinues == []C19_State /\ [][C19_StepAlways]_vars

\* C19, amended: a single invocation that is not cancelled returns a session
\* id, and a later single call of the same worker that passes this id is
\* launched in continue mode on the transcript of the first and returns the
\* same id, provided the session is still in the store, is not in use and
\* its transcript is on disk when the call is made.
C19_ResumeContinuesUsableSession == []C19_State /\ [][C19_StepIfUsable]_vars

\* a call that resumed the session of an earlier call has returned its id
C19_Witness ==
  \E k, j \in DOMAIN inv :
    /\ j[1] < k[1] /\ inv[j].pc = "returned" /\ inv[j].launch = "session"
    /\ inv[k].pc = "returned" /\ inv[k].launch = "continue"
    /\ inv[k].file = inv[j].file
    /\ inv[k].sessionId = inv[j].sessionId /\ inv[k].sessionId # NoSession

\* the request passes the checks execute makes before the dispatch
Dispatchable(q) ==
  /\ q.state # "absent" /\ ShapesNamed(q) = 1
  /\ ~(q.sessionId # NoSession /\ (q.agent = "" \/ q.task = <<>>))

\* C20: a request with the background flag that passes the checks of execute
\* has a job id from its submission on; for as long as the execution of the
\* request has not finished, whatever its subprocesses and other requests do,
\* its job is in the registry with status running and no finish time; once
\* it has finished the job, while it is kept, has a final status.
C20_JobRunningUntilFinished ==
  \A r \in Req : req[r].background /\ Dispatchable(req[r]) =>
    /\ req[r].jobId # NoJob
    /\ req[r].state = "running" =>
         /\ req[r].jobId \in DOMAIN jobs
         /\ jobs[req[r].jobId].req = r
         /\ jobs[req[r].jobId].status = "running"
         /\ jobs[req[r].jobId].finishedAt = -1
    /\ req[r].state # "running" /\ req[r].jobId \in DOMAIN jobs =>
         /\ jobs[req[r].jobId].req = r
         /\ jobs[req[r].jobId].status \in {"completed", "failed"}

\* a background chain whose job is still running, the child of its second
\* step alive, after an older finished job was swept at the registration of
\* a later one
C20_Witness ==
  \E j \in DOMAIN jobs :
    /\ jobs[j].status = "running" /\ jobs[j].mode = "chain"
    /\ <<jobs[j].req, 2>> \in DOMAIN inv
    /\ inv[<<jobs[j].req, 2>>].proc = "alive"
    /\ jobCounter > Cardinality(DOMAIN jobs)


\* C21: the status of a background job changes at most once, from running
\* to completed or failed; a job whose status is completed or failed keeps
\* its status, finish time and result in every later step for as long as it
\* is in the registry, and a job id that enters the registry is a new one,
\* with status running.
C21_Step ==
  /\ \A j \in DOMAIN jobs :
       /\ jobs[j].status \in {"completed", "failed"} /\ j \in DOMAIN jobs' =>
            jobs'[j] = jobs[j]
       /\ jobs[j].status = "running" /\ j \in DOMAIN jobs' =>
            \/ jobs'[j] = jobs[j]
            \/ /\ jobs'[j].status \in {"completed", "failed"}
               /\ jobs'[j].finishedAt = now
               /\ jobs'[j].result # NoResponse
  /\ \A j \in (DOMAIN jobs') \ DOMAIN jobs : j > jobCounter

C21_JobStatusMonotonic == [][C21_Step]_vars

\* a failed job still in the registry after an idle period and after another
\* job has finished
C21_Witness ==
  \E j, i \in DOMAIN jobs :
    /\ jobs[j].status = "failed" /\ jobs[j].finishedAt < now
    /\ jobs[i].status = "completed" /\ jobs[i].finishedAt > jobs[j].finishedAt


\* the number of notifications emitted for job j
NotifiedTimes(j) ==
  Cardinality({i \in 1..Len(notifications) : notifications[i].jobId = j})

\* the execution behind job j has ended, by returning or by throwing
JobFinished(j) ==
  \E r \in Req : req[r].jobId = j /\ req[r].state \in {"returned", "thrown"}

\* C22: every background job whose execution has ended, with success or with
\* failure, has been notified exactly once and no other job has been
\* notified at all; the step that emits the notification of a job leaves the
\* job in the registry with the status the notification names, its finish
\* time and its result.
C22_State ==
  \A j \in 1..jobCounter : NotifiedTimes(j) = (IF JobFinished(j) THEN 1 ELSE 0)

C22_Step ==
  /\ Len(notifications') >= Len(notifications)
  /\ SubSeq(notifications', 1, Len(notifications)) = notifications
  /\ \A i \in (Len(notifications) + 1)..Len(notifications') :
       LET n == notifications'[i] IN
       /\ n.jobId \in DOMAIN jobs'
       /\ jobs'[n.jobId].status = n.status
       /\ n.status \in {"completed", "failed"}
       /\ jobs'[n.jobId].finishedAt = now
       /\ jobs'[n.jobId].result # NoResponse

C22_NotifiedExactlyOnce == []C22_State /\ [][C22_Step]_vars

\* one job was notified as completed and another as failed, and the first
\* has since been cleared from the registry
C22_Witness ==
  \E a, b \in 1..Len(notifications) :
    /\ notifications[a].status = "completed" /\ notifications[b].status = "failed"
    /\ notifications[a].jobId \notin DOMAIN jobs


RunningJobs(js) == {j \in DOMAIN js : js[j].status = "running"}

\* C23: no step removes a job with status running from the registry,
\* whether the step is a registration with its eviction sweep (by age or by
\* count), a clear or anything else; a clear leaves exactly the running
\* jobs and reports the number of jobs it removed, which is the number of
\* jobs that were completed or failed.
C23_Step ==
  /\ RunningJobs(jobs) \subseteq DOMAIN jobs'
  /\ SubagentJobs("clear", NoJob) =>
       /\ DOMAIN jobs' = RunningJobs(jobs)
       /\ \A j \in DOMAIN jobs' : jobs'[j] = jobs[j]
       /\ jobsReply'.cleared = Cardinality((DOMAIN jobs) \ RunningJobs(jobs))

C23_RunningJobNeverRemoved == [][C23_Step]_vars

\* a clear has removed as many jobs as the ceiling allows, which is what the
\* count rule of a sweep had left of a fuller registry, and has kept a job
\* that was and is running
C23_Witness ==
  /\ jobsReply.action = "clear" /\ jobsReply.cleared = COMPLETED_JOB_MAX_COUNT
  /\ \E j, i \in RunningJobs(jobs) : j # i


\* the result the catch branch of a background job stores
JobError == [NoResponse EXCEPT !.kind = "job_error", !.isError = TRUE]

\* C24: when the execution of a background job throws, as it does when one
\* of its invocations was aborted, the same step leaves the job in the
\* registry with status failed, the synthetic error result and a finish
\* time, and leaves every other job of the registry as it was; a job whose
\* execution has thrown is never running.
C24_State ==
  \A r \in Req : req[r].jobId # NoJob /\ req[r].state = "thrown"
                   /\ req[r].jobId \in DOMAIN jobs =>
    /\ jobs[req[r].jobId].status = "failed"
    /\ jobs[req[r].jobId].result = JobError
    /\ jobs[req[r].jobId].finishedAt >= jobs[req[r].jobId].startedAt

C24_Step ==
  \A r \in Req : req[r].jobId # NoJob /\ req[r].state = "running"
                   /\ req'[r].state = "thrown" =>
    /\ req[r].jobId \in DOMAIN jobs'
    /\ jobs'[req[r].jobId].status = "failed"
    /\ jobs'[req[r].jobId].finishedAt = now
    /\ DOMAIN jobs' = DOMAIN jobs
    /\ \A j \in (DOMAIN jobs) \ {req[r].jobId} : jobs'[j] = jobs[j]

ConfirmationDue(q) ==
  /\ q.state # "absent"
  /\ q.agentScope \in {"project", "both"} /\ q.confirmProjectAgents /\ q.hasUI
  /\ \E a \in ProjectAgents :
       \/ q.agent = a
       \/ \E i \in 1..Len(q.chain) : q.chain[i].agent = a
       \/ \E i \in 1..Len(q.tasks) : q.tasks[i].agent = a

\* C25: a request that names a project-sourced worker, under a scope that
\* includes project workers, with confirmation enabled and a UI present,
\* has started no invocation (hence no subprocess), created no session,
\* prompt file or transcript and registered no background job as long as
\* the user has not approved the prompt; once the user has declined, the
\* request has ended with the cancelled message.
C25_ProjectAgentsNeedApproval ==
  \A r \in Req : ConfirmationDue(req[r]) =>
    /\ req[r].answer # "approved" =>
         /\ InvOf(r) = {} /\ JobsOf(r) = {} /\ req[r].jobId = NoJob
         /\ sessions = <<>> /\ sessionCounter = 0 /\ files = {} /\ prompts = NoPrompts
         /\ jobCounter = 0
    /\ req[r].answer = "declined" =>
         req[r].state = "returned" /\ req[r].response.kind = "canceled"
    /\ req[r].answer = "none" /\ req[r].state = "returned" =>
         req[r].response.kind \in {"invalid_parameters", "session_single_only"}

\* an approved background chain in scope both: its job is registered and the
\* child of its project worker is alive
C25_Witness ==
  \E r \in Req :
    /\ ConfirmationDue(req[r]) /\ req[r].answer = "approved"
    /\ req[r].agentScope = "both" /\ req[r].jobId \in DOMAIN jobs
    /\ \E k \in InvOf(r) : inv[k].agent = "local" /\ inv[k].proc = "alive"

\* C26: the active tool set is the read-only set exactly when plan mode is
\* enabled: after any sequence of toggles, plan executions, plan completions
\* and session starts, plan mode enabled implies the restricted set is
\* active, and plan mode disabled implies all tools are active.
C26_ToolsFollowPlanMode ==
  /\ planModeEnabled => activeTools = PLAN_MODE_TOOLS
  /\ ~planModeEnabled => activeTools = AllToolNames

\* C27: a session start in a new process that restores from the persisted
\* entries of the session yields the plan-mode flag, the execution flag, the
\* clean-execution flag and the todo list (with completion marks) that were
\* in effect when the session was left.
C27_Step ==
  (/\ LastIndex(entries, Len(entries), "plan-mode") # 0
   /\ SessionStart(TRUE, FALSE, "same"))
  => /\ planModeEnabled' = planModeEnabled
     /\ executionMode' = executionMode
     /\ cleanExecution' = cleanExecution
     /\ todoItems' = todoItems

C27_PlanStateSurvivesResume == [][C27_Step]_vars

\* the messages carried by the well-formed message-completed and tool-result
\* lines among ls, in order
RECURSIVE Carried(_)
Carried(ls) ==
  IF ls = <<>> THEN <<>>
  ELSE LET event == JSONparse(Head(ls)) IN
       (IF /\ event.ok /\ ~event.isNull
           /\ event.type \in {"message_end", "tool_result_end"}
           /\ event.message # Undefined
        THEN <<event.message>> ELSE <<>>) \o Carried(Tail(ls))

\* C28: for every sequence of output lines, the result's message list is, in
\* arrival order, the messages carried by the well-formed message-completed
\* and tool-result lines; every accepted line triggers exactly one progress
\* callback carrying the messages so far, and no other line changes the
\* result or triggers a callback.
C28_MessagesFollowLines ==
  stream.state # "none" =>
    /\ stream.messages = Carried(arrived)
    /\ stream.updates = IF stream.onUpdate
                        THEN [i \in 1..Len(stream.messages) |-> SubSeq(stream.messages, 1, i)]
                        ELSE <<>>

\* the step creates a session
CreatesSession == sessionCounter' = sessionCounter + 1

\* C29: the eviction sweep never removes a session that is in use: the
\* creation of another session, whatever the number or age of the sessions,
\* leaves the entry of a session in use, its transcript and its retained
\* prompt directory in place.
C29_Step ==
  CreatesSession =>
    \A s \in DOMAIN sessions :
      sessions[s].inUse =>
        /\ s \in DOMAIN sessions' /\ sessions'[s] = sessions[s]
        /\ s \in files => s \in files'
        /\ s \in prompts.session => s \in prompts'.session

C29_InUseSessionNeverEvicted == [][C29_Step]_vars

\* a call runs on its own session 51 since before an idle period; a later
\* creation swept the store (the stored idle sessions are gone) and session
\* 51 is still there, with its transcript and its prompt directory
C29_Witness ==
  /\ \E k \in DOMAIN inv :
       /\ inv[k].pc = "running" /\ inv[k].session = SESSION_MAX_COUNT + 1
       /\ SESSION_MAX_COUNT + 1 \in DOMAIN sessions
       /\ sessions[SESSION_MAX_COUNT + 1].inUse
       /\ now - sessions[SESSION_MAX_COUNT + 1].lastUsedAt > SESSION_MAX_AGE
  /\ SESSION_MAX_COUNT + 1 \in files /\ SESSION_MAX_COUNT + 1 \in prompts.session
  /\ SESSION_MAX_COUNT + 2 \in DOMAIN sessions
  /\ 1 \notin DOMAIN sessions

\* the sessions the sweep of this step could remove: the new one and those
\* that were not in use
Evictable == {s \in DOMAIN sessions : ~sessions[s].inUse} \cup {sessionCounter + 1}
LastUsedAtSweep(s) == IF s \in DOMAIN sessions THEN sessions[s].lastUsedAt ELSE now

\* C30: after every session creation the store holds at most
\* SESSION_MAX_COUNT sessions unless every session left is in use, and a
\* session removed without being expired was used no later than every
\* session not in use that is kept.
C30_Step ==
  CreatesSession =>
    /\ \/ Cardinality(DOMAIN sessions') <= SESSION_MAX_COUNT
       \/ Evictable \cap DOMAIN sessions' = {}
    /\ \A gone \in Evictable \ DOMAIN sessions' :
         \/ now - LastUsedAtSweep(gone) > SESSION_MAX_AGE
         \/ \A kept \in Evictable \cap DOMAIN sessions' :
              LastUsedAtSweep(gone) <= LastUsedAtSweep(kept)

C30_CountCeilingAndLruOrder == [][C30_Step]_vars

\* two sessions were created on the full store of idle sessions, and the
\* count rule removed the two used two hours ago that come first (2 and 5),
\* keeping the older ids 1, 3 and 4
C30_Witness ==
  /\ now = 0
  /\ sessionCounter = SESSION_MAX_COUNT + 2
  /\ Cardinality(DOMAIN sessions) = SESSION_MAX_COUNT
  /\ {1, 3, 4, SESSION_MAX_COUNT + 1, SESSION_MAX_COUNT + 2} \subseteq DOMAIN sessions
  /\ 2 \notin DOMAIN sessions /\ 5 \notin DOMAIN sessions

\* the step is a background submission: evictOldJobs runs, then the new job
\* is registered under the next id
SweepsJobs == jobCounter' = jobCounter + 1
Terminal(js) == {j \in DOMAIN js : js[j].status # "running"}
SweptJobs == DOMAIN jobs \ DOMAIN jobs'

\* C31: right after each sweep of the job registry at most
\* COMPLETED_JOB_MAX_COUNT finished jobs remain, none of them finished longer
\* ago than COMPLETED_JOB_MAX_AGE, and a job dropped without being that old
\* finished no later than every finished job retained.
C31_Step ==
  SweepsJobs =>
    LET retained == Terminal(jobs) \cap DOMAIN jobs' IN
    /\ Cardinality(retained) <= COMPLETED_JOB_MAX_COUNT
    /\ \A j \in retained : now - jobs[j].finishedAt <= COMPLETED_JOB_MAX_AGE
    /\ \A gone \in SweptJobs :
         \/ now - jobs[gone].finishedAt > COMPLETED_JOB_MAX_AGE
         \/ \A j \in retained : jobs[gone].finishedAt <= jobs[j].finishedAt

C31_SweepLeavesNewestJobs == [][C31_Step]_vars

\* one submission on the full registry: the count rule dropped jobs 2 and 4
\* (finished an hour ago) and kept jobs 1 and 3 (finished later)
C31_Witness ==
  /\ now = 0
  /\ jobCounter = COMPLETED_JOB_MAX_COUNT + 3
  /\ Cardinality(Terminal(jobs) \ {COMPLETED_JOB_MAX_COUNT + 3}) = COMPLETED_JOB_MAX_COUNT
  /\ {1, 3} \subseteq DOMAIN jobs
  /\ 2 \notin DOMAIN jobs /\ 4 \notin DOMAIN jobs

\* C32: every temporary prompt directory has one owner and none leaks: the
\* directory of a one-shot invocation exists only while that invocation runs,
\* and the directory handed to a session exists exactly as long as the
\* session is stored.
C32_PromptDirsOwned ==
  /\ \A k \in prompts.oneShot : k \in DOMAIN inv /\ inv[k].pc = "running"
  /\ prompts.session \subseteq DOMAIN sessions
  /\ \A s \in DOMAIN sessions : sessions[s].agent \in PromptAgents => s \in prompts.session

\* an aborted chain step threw and the directory it had written is gone,
\* while the stored session keeps its own
C32_Witness ==
  /\ \E k \in DOMAIN inv : inv[k].pc = "thrown" /\ inv[k].agent \in PromptAgents
                            /\ inv[k].session = NoSession /\ inv[k].proc = "exited"
  /\ prompts.oneShot = {}
  /\ 1 \in DOMAIN sessions /\ 1 \in prompts.session

\* the step emits an aggregate update of the batch of request r
EmitsParallelUpdate(r) ==
  /\ req[r].mode = "parallel" /\ req[r].state = "running"
  /\ \/ req'[r].allResults # req[r].allResults
     \/ \E i \in 1..Len(req[r].tasks) : ChildProgress(<<r, i>>)

\* C33: in every aggregate progress update of a parallel batch the snapshot
\* has one entry per requested item in request order, done + running is the
\* total, and the running count is the number of children started and not
\* yet finished at that moment (so at most MAX_CONCURRENCY); items not
\* started yet are not counted as running.
C33_Step ==
  \A r \in Req :
    EmitsParallelUpdate(r) =>
      LET update == emitParallelUpdate(req'[r].allResults) IN
      /\ Len(update.results) = Len(req[r].tasks)
      /\ \A i \in 1..Len(req[r].tasks) : update.results[i].agent = req[r].tasks[i].agent
      /\ update.done + update.running = Len(req[r].tasks)
      /\ update.running =
           Cardinality({k \in DOMAIN inv' : k[1] = r /\ inv'[k].pc = "running"})
      /\ update.running <= MAX_CONCURRENCY

C33_RunningCountIsLiveChildren == [][C33_Step]_vars

\* the corrections in flight whose controller is not aborted
Current == {k \in 1..Len(corrections) :
              corrections[k].pc # "done" /\ ~corrections[k].aborted}

\* C34: at most one async correction is current, and it is the one asyncAbort
\* holds; starting a correction aborts the one in flight; the result of an
\* aborted correction (superseded, or aborted by disabling or by a session
\* start) is in no pending correction and not in the widget; while the feature
\* is disabled the pending corrections are empty.
C34_OneCurrentCorrection ==
  /\ Cardinality(Current) <= 1
  /\ Current = IF asyncAbort = 0 THEN {} ELSE {asyncAbort}
  /\ \A k \in 1..Len(corrections) :
       corrections[k].aborted =>
         /\ widget # k
         /\ \A i \in 1..Len(pendingCorrections) : pendingCorrections[i].by # k
  /\ ~grammarEnabled => pendingCorrections = <<>>

\* a superseded correction whose request still answered with a corrected text
\* has finished, and the correction that replaced it is stored and shown
C34_Witness ==
  \E k, j \in 1..Len(corrections) :
    /\ k < j
    /\ corrections[k].aborted /\ corrections[k].pc = "done"
    /\ corrections[k].response = "corrected"
    /\ widget = j
    /\ \E i \in 1..Len(pendingCorrections) : pendingCorrections[i].by = j

\* the running invocations that created their session
Creators == {k \in DOMAIN inv : inv[k].pc = "running" /\ inv[k].sessArg = NoSession
                                /\ inv[k].session # NoSession}

\* C35: creating a session never evicts the session being created: while the
\* invocation that created it runs, the session is in the store with its
\* transcript path and its prompt directory, and the session id that an
\* invocation returns refers to a stored session at that moment.
C35_Step ==
  /\ \A k \in Creators :
       /\ inv[k].session \in DOMAIN sessions
       /\ sessions[inv[k].session].sessionFilePath = inv[k].file
       /\ inv[k].agent \in PromptAgents => inv[k].session \in prompts.session
  /\ \A k \in DOMAIN inv :
       (inv[k].pc = "running" /\ inv'[k].pc = "returned" /\ inv'[k].sessionId # NoSession)
         => inv'[k].sessionId \in DOMAIN sessions'

C35_NewSessionSurvivesItsCreation == [][C35_Step]_vars

\* the step is the close event of child k without an exit code, the
\* orchestrator having sent it no signal
SignalClose(k) ==
  /\ inv[k].pc = "running" /\ inv[k].proc = "alive" /\ ~inv[k].termSent
  /\ Settle(k, NullCode, "none", <<>>)

\* C36: a child ended by a signal that the orchestrator did not send is never
\* reported as a success: the exit status of its result is not 0, a single
\* call answers with an error and a chain stops at that step.
C36_Step ==
  \A k \in DOMAIN inv :
    SignalClose(k) =>
      /\ inv'[k].pc = "returned" /\ inv'[k].exitCode # 0
      /\ req[k[1]].mode = "single" => req'[k[1]].response.isError
      /\ req[k[1]].mode = "chain" => req'[k[1]].response.kind = "chain_stopped"

C36_SignalledChildIsFailure == [][C36_Step]_vars

\* C37: the success count of a parallel batch is the number of children that
\* are successes under the criterion of single calls and chain steps (exit
\* status 0 and stop reason neither error nor aborted).
C37_SuccessCountUsesIsError ==
  \A r \in Req :
    (req[r].state = "returned" /\ req[r].response.kind = "parallel") =>
      req[r].response.successCount =
        Cardinality({i \in 1..Len(req[r].response.results) :
                       ~isError(req[r].response.results[i])})

\* the stream after the output out arrived in a single chunk and the
\* subprocess closed
InOneChunk(out, onUpdate) ==
  LET text == [i \in 1..Len(out) |-> toString(out[i])]
      st == processLines([NoStream EXCEPT !.onUpdate = onUpdate],
                         SubSeq(text, 1, Len(text) - 1))
      last == text[Len(text)]
  IN IF last # <<>> THEN processLine([st EXCEPT !.threw = FALSE], last) ELSE st

\* C38: the parsed result does not depend on how the output is cut into
\* chunks: after the close, the messages, the turn count and the updates sent
\* are those of the same output arriving in one chunk.
C38_ChunkingDoesNotMatter ==
  stream.state \in {"resolved", "pending"} =>
    LET whole == InOneChunk(output, stream.onUpdate) IN
    /\ stream.messages = whole.messages
    /\ stream.turns = whole.turns
    /\ stream.updates = whole.updates

JobRunning(j) == j \in DOMAIN jobs /\ jobs[j].status = "running"

\* C39: every background job eventually leaves status running (and is then
\* completed or failed), given that every child it spawns exits.
C39_JobsEventuallyFinish ==
  \A j \in 1..MaxReq : [](JobRunning(j) => <>(~JobRunning(j)))

\* C40: plan mode and plan execution mode are never active together, through
\* toggles, execute choices, step and plan completion and session starts.
C40_PlanAndExecutionExclusive == ~(planModeEnabled /\ executionMode)

====
